---------------------------- MODULE Spec2Model ----------------------------
(***************************************************************************)
(* A model of the Sodaq_N3X AT-command client (src/src/Sodaq_N3X.cpp):     *)
(* the response matcher readResponse, the notification dispatcher          *)
(* checkURC, the socket table they share and the socket manager built on   *)
(* them.                                                                   *)
(*                                                                         *)
(* Lines are TLA+ strings holding the characters of a framed line (what    *)
(* readLn leaves in _inputBuffer).  A blocking call is modelled by its     *)
(* position: an API call writes its command and enters readResponse        *)
(* (pc = "wait"); every further step is one iteration of readResponse's    *)
(* loop on the line the modem sent, or the expiry of its deadline, and     *)
(* the step that ends readResponse also runs the rest of the calling       *)
(* function.                                                               *)
(***************************************************************************)
EXTENDS Integers, Sequences, FiniteSets, TLC

(***************************************************************************)
(* Bounds of the model.                                                    *)
(***************************************************************************)
\* Number of socket-table entries (the header's SOCKET_COUNT, scaled down).
SOCKET_COUNT == 2
\* size_t arithmetic is done modulo SizeMod (the width of size_t, scaled down).
SizeMod == 3
\* Largest byte count a socket-data-arrival notification reports.
MaxUrcBytes == 1
\* Largest length the modem reports in a +USORF reply.
MaxRetSize == 2
\* Largest capacity a caller passes to socketReceive.
MaxCapacity == 1
\* Unsolicited lines (echo, notifications, stray text) the modem interleaves
\* with the reply to one command.
MaxUnsolicited == 1
\* sizeof(outBuffer) of socketReceive (the header's SODAQ_N3X_MAX_UDP_BUFFER,
\* scaled down, still larger than every reply line of the model).
SODAQ_N3X_MAX_UDP_BUFFER == 64

(***************************************************************************)
(* Program constants.                                                      *)
(***************************************************************************)
SOCKET_FAIL == -1
CreateBufferSize == 32

STR_AT == "AT"
STR_RESPONSE_OK == "OK"
STR_RESPONSE_ERROR == "ERROR"
STR_RESPONSE_CME_ERROR == "+CME ERROR:"
STR_RESPONSE_CMS_ERROR == "+CMS ERROR:"
LF == "\n"

GSMResponseOK == "GSMResponseOK"
GSMResponseError == "GSMResponseError"
GSMResponseTimeout == "GSMResponseTimeout"

None == "none"

(***************************************************************************)
(* C strings and the C library functions the code uses.                    *)
(***************************************************************************)
Min(a, b) == IF a <= b THEN a ELSE b

CharAt(s, i) == SubSeq(s, i, i)

\* strncmp(pre, str, strlen(pre)) == 0
startsWith(pre, str) ==
    /\ Len(str) >= Len(pre)
    /\ SubSeq(str, 1, Len(pre)) = pre

\* The same comparison at offset p (1-based) of str.
MatchesAt(str, p, lit) ==
    /\ Len(str) >= p - 1 + Len(lit)
    /\ SubSeq(str, p, p - 1 + Len(lit)) = lit

Digits == {"0", "1", "2", "3", "4", "5", "6", "7", "8", "9"}

DigitVal(c) ==
    CASE c = "0" -> 0 [] c = "1" -> 1 [] c = "2" -> 2 [] c = "3" -> 3
      [] c = "4" -> 4 [] c = "5" -> 5 [] c = "6" -> 6 [] c = "7" -> 7
      [] c = "8" -> 8 [] c = "9" -> 9

IsSpace(c) == c \in {" ", "\n", "\t", "\r"}

\* First position >= p of s that holds no white space (Len(s)+1 if none).
RECURSIVE SkipWs(_, _)
SkipWs(s, p) ==
    IF p <= Len(s) /\ IsSpace(CharAt(s, p)) THEN SkipWs(s, p + 1) ELSE p

\* First position >= p of s that holds no digit.
RECURSIVE SkipDigits(_, _)
SkipDigits(s, p) ==
    IF p <= Len(s) /\ CharAt(s, p) \in Digits THEN SkipDigits(s, p + 1) ELSE p

\* Value of the digit string s[p..q-1], most significant digit first.
RECURSIVE DigitsVal(_, _, _, _)
DigitsVal(s, p, q, acc) ==
    IF p >= q THEN acc
    ELSE DigitsVal(s, p + 1, q, 10 * acc + DigitVal(CharAt(s, p)))

\* The conversion %d at position p: white space, an optional sign, digits.
IntResult(s, neg, p1, p2) ==
    [ok |-> p2 > p1, pos |-> p2,
     val |-> IF neg THEN 0 - DigitsVal(s, p1, p2, 0)
             ELSE DigitsVal(s, p1, p2, 0)]

ScanDigits(s, neg, p1) == IntResult(s, neg, p1, SkipDigits(s, p1))

ScanSign(s, p0) ==
    IF p0 <= Len(s) /\ CharAt(s, p0) = "-" THEN ScanDigits(s, TRUE, p0 + 1)
    ELSE IF p0 <= Len(s) /\ CharAt(s, p0) = "+"
    THEN ScanDigits(s, FALSE, p0 + 1)
    ELSE ScanDigits(s, FALSE, p0)

ScanInt(s, p) == ScanSign(s, SkipWs(s, p))

\* First position >= p of s that holds the character c (Len(s)+1 if none).
RECURSIVE FindChar(_, _, _)
FindChar(s, p, c) ==
    IF p <= Len(s) /\ CharAt(s, p) # c THEN FindChar(s, p + 1, c) ELSE p

\* Directives of a scanf format.
Lit(str) == [t |-> "lit", s |-> str, keep |-> FALSE]
Ws == [t |-> "ws", s |-> "", keep |-> FALSE]
PctD == [t |-> "d", s |-> "", keep |-> TRUE]
PctDSkip == [t |-> "d", s |-> "", keep |-> FALSE]
PctNotQuote == [t |-> "set", s |-> "\"", keep |-> TRUE]
PctNotQuoteSkip == [t |-> "set", s |-> "\"", keep |-> FALSE]
PctS == [t |-> "str", s |-> "", keep |-> TRUE]

\* First position >= p of s that holds white space (Len(s)+1 if none).
RECURSIVE FindSpace(_, _)
FindSpace(s, p) ==
    IF p <= Len(s) /\ ~IsSpace(CharAt(s, p)) THEN FindSpace(s, p + 1) ELSE p

\* sscanf from position p of s under the directives fmt: the values assigned,
\* in order, up to the first directive that fails.
RECURSIVE ScanFrom(_, _, _, _)

\* %d, given the integer r scanned at the position.
ScanConvInt(s, r, d, fmt, vals) ==
    IF r.ok
    THEN ScanFrom(s, r.pos, fmt, IF d.keep THEN Append(vals, r.val) ELSE vals)
    ELSE vals

\* %[^c], given the position e of the first c at or after p.
ScanConvSet(s, p, e, d, fmt, vals) ==
    IF e > p
    THEN ScanFrom(s, e, fmt,
                  IF d.keep THEN Append(vals, SubSeq(s, p, e - 1)) ELSE vals)
    ELSE vals

ScanDirective(s, p, d, fmt, vals) ==
    CASE d.t = "lit" ->
           IF MatchesAt(s, p, d.s) THEN ScanFrom(s, p + Len(d.s), fmt, vals)
           ELSE vals
      [] d.t = "ws" -> ScanFrom(s, SkipWs(s, p), fmt, vals)
      [] d.t = "d" -> ScanConvInt(s, ScanInt(s, p), d, fmt, vals)
      [] d.t = "set" -> ScanConvSet(s, p, FindChar(s, p, d.s), d, fmt, vals)
      [] d.t = "str" ->
           ScanConvSet(s, SkipWs(s, p), FindSpace(s, SkipWs(s, p)), d, fmt,
                       vals)

ScanFrom(s, p, fmt, vals) ==
    IF fmt = <<>> THEN vals
    ELSE ScanDirective(s, p, Head(fmt), Tail(fmt), vals)

sscanf(s, fmt) == ScanFrom(s, 1, fmt, <<>>)


(***************************************************************************)
(* Lines of the wire protocol.                                             *)
(***************************************************************************)
Sockets == 0 .. (SOCKET_COUNT - 1)

UUSORF(id, n) == "+UUSORF: " \o ToString(id) \o "," \o ToString(n)
UUSOCL(id) == "+UUSOCL: " \o ToString(id)
USOCR(id) == "+USOCR: " \o ToString(id)

\* Hexadecimal text of n payload bytes, as the modem sends it.
HexData(n) == SubSeq("A1B2C3D4E5F6", 1, 2 * n)

USORF(id, n, data) ==
    "+USORF: " \o ToString(id) \o ",\"1.2.3.4\",80," \o ToString(n)
        \o ",\"" \o data \o "\""

\* A line with the notification sentinel and none of the four shapes.
UnknownPlusLine == "+UX: 1"

\* The four notification shapes; ids range over valid and invalid sessions.
UrcIds == 0 .. SOCKET_COUNT
CloseUrcs == {UUSOCL(id) : id \in UrcIds}
LoggedUrcs == {"+UFOTAS: 1,2", "+CSCON: 1"}

Terminals == {"OK", "ERROR", "+CME ERROR: 10"}

\* What the modem answers to a command: payload lines, then a terminal line or
\* (no terminal line) silence until the deadline.  A command is refused
\* without payload.
Plans(payloads) ==
    {pl \o t : pl \in payloads, t \in {<<>>, <<"OK">>}}
        \cup {<<x>> : x \in Terminals}

CreateReplies ==
    Plans({<<>>, <<"+USOCR: x">>, <<"+USOCR: -1">>}
          \cup {<<USOCR(id)>> : id \in 0 .. (SOCKET_COUNT + 1)})

ReceiveReplies(s) ==
    Plans({<<>>, <<"+USORF: " \o ToString(s) \o ",0">>}
          \cup {<<USORF(s, n, HexData(n))>> : n \in 1 .. MaxRetSize}
          \cup {<<USORF(SOCKET_COUNT, 1, HexData(1))>>})

PlainReplies == Plans({<<>>})

InfoReplies ==
    Plans({<<>>, <<"+CCID: 8931">>, <<"L0.0.00.00">>,
           <<"+CCID: 89", "+CCID: 31">>, <<"+CCID: ", "+CCID: 8931">>,
           <<"OKAY">>})

(***************************************************************************)
(* The hexadecimal text of a payload: the macros of lines 60-64 on         *)
(* character codes, the loop of socketSend that prints a payload and the   *)
(* loop of socketReceive that reads one back.                              *)
(***************************************************************************)
\* The characters with the codes '0' (48) to 'F' (70), in code order.
AsciiDigitsToF == "0123456789:;<=>?@ABCDEF"

\* The code of a character of that range, and the character of a code.
Ord(ch) == 47 + CHOOSE k \in 1 .. Len(AsciiDigitsToF) :
                    CharAt(AsciiDigitsToF, k) = ch
Chr(code) == CharAt(AsciiDigitsToF, code - 47)

NIBBLE_TO_HEX_CHAR(i) == IF i <= 9 THEN Ord("0") + i ELSE Ord("A") - 10 + i
HIGH_NIBBLE(i) == (i \div 16) % 16
LOW_NIBBLE(i) == i % 16

\* A HEX_CHAR_TO_NIBBLE that knows the decimal digits only.
HEX_CHAR_TO_NIBBLE_DigitsOnly(c) == c - Ord("0")

HEX_CHAR_TO_NIBBLE(c) ==
    IF c >= Ord("A") THEN c - Ord("A") + 10 ELSE c - Ord("0")

HEX_PAIR_TO_BYTE(h, l) == (HEX_CHAR_TO_NIBBLE(h) * 16) + HEX_CHAR_TO_NIBBLE(l)

\* socketSend, lines 834-837: the characters printed for buffer[i ..].
RECURSIVE HexPrinted(_, _)
HexPrinted(buffer, i) ==
    IF i > Len(buffer) THEN ""
    ELSE Chr(NIBBLE_TO_HEX_CHAR(HIGH_NIBBLE(buffer[i])))
           \o Chr(NIBBLE_TO_HEX_CHAR(LOW_NIBBLE(buffer[i])))
           \o HexPrinted(buffer, i + 1)

\* socketReceive, lines 802-806: the bytes stored into the uint8_t buffer
\* from the text outBuffer for retSize bytes.
HexStored(text, retSize) ==
    [k \in 1 .. retSize |->
        HEX_PAIR_TO_BYTE(Ord(CharAt(text, 2 * k - 1)),
                         Ord(CharAt(text, 2 * k))) % 256]

\* The replies to AT+USOST for ret bytes sent on session id: the count
\* reported under that id, under the ids past the table, or nothing.
USOST(id, n) == "+USOST: " \o ToString(id) \o "," \o ToString(n)
SendReplies(id, n) ==
    Plans({<<>>, <<USOST(id, n)>>, <<USOST(SOCKET_COUNT, n)>>,
           <<USOST(SOCKET_COUNT + 1, n)>>})

\* The APN connect() is called with, and the replies to AT+CGDCONT?: the
\* context with that APN and an address, with the null address, with another
\* APN, with no APN, and no context.
RequiredApn == "nb.net"
CGDCONT(apn, ip) ==
    "+CGDCONT: 1,\"IP\",\"" \o apn \o "\",\"" \o ip \o "\",0,0,0,0"
ApnReplies ==
    Plans({<<>>, <<CGDCONT(RequiredApn, "10.0.0.1")>>,
           <<CGDCONT(RequiredApn, "0.0.0.0")>>, <<CGDCONT("other", "10.0.0.1")>>,
           <<CGDCONT("", "0.0.0.0")>>})

\* The replies to AT+CFUN?, to AT+CFGDFTPDN? and to AT+CPIN?.
CfunReplies == Plans({<<>>, <<"+CFUN: 1">>, <<"+CFUN: 0">>})
CFGDFTPDN(apn) == "+CFGDFTPDN: 1,\"" \o apn \o "\""
DefaultApnReplies ==
    Plans({<<>>, <<CFGDFTPDN(RequiredApn)>>, <<CFGDFTPDN("other")>>,
           <<CFGDFTPDN("")>>})
SimReplies == Plans({<<>>, <<"+CPIN: READY">>, <<"+CPIN: SIM PIN">>})

\* The replies to AT+CSQ: a signal quality, "not known", and none.
CsqReplies == Plans({<<>>, <<"+CSQ: 20,3">>, <<"+CSQ: 99,99">>})

(***************************************************************************)
(* State.                                                                  *)
(***************************************************************************)
VARIABLES
    closedBit,      \* _socketClosedBit
    pendingBytes,   \* _socketPendingBytes
    pc,             \* "idle"; "wait": inside readResponse; "done": returned
    call,           \* the API call in progress or just returned
    outBuffer,      \* readResponse's outBuffer[0 .. outSize-1]
    inputBuffer,    \* _inputBuffer: the line readLn framed for this iteration
                    \* (nothing reads it after the iteration: the state
                    \* keeps it only when observe)
    observe,        \* whether the state keeps the framed line
    rest,           \* lines of the modem's reply not sent yet
    nUnsol,         \* unsolicited lines sent during this call
    wire            \* commands written to the transport by this call

vars == <<closedBit, pendingBytes, pc, call, outBuffer,
          inputBuffer, observe, rest, nUnsol, wire>>

\* Unsigned (size_t) arithmetic.
USub(a, b) == (((a - b) % SizeMod) + SizeMod) % SizeMod
UAdd(a, b) == (((a + b) % SizeMod) + SizeMod) % SizeMod

NoCall ==
    [op |-> None, sock |-> -1, size |-> 0, hasBuf |-> FALSE, reqSize |-> 0,
     outGiven |-> FALSE, outMax |-> 0, prefix |-> "", reply |-> <<>>,
     pre |-> 0, absorbed |-> 0, closeUrc |-> FALSE,
     resp |-> None, ret |-> None, avail |-> -1, stored |-> 0,
     oobStores |-> 0, buffer |-> <<>>, decoded |-> <<>>, phase |-> None,
     i |-> 0, j |-> 0, table |-> <<>>, nul |-> TRUE, pastCapacity |-> 0,
     stream |-> <<>>, whole |-> FALSE, opr |-> "", band |-> "",
     delay |-> 500, slept |-> 0, reboots |-> 0, late |-> FALSE,
     sim |-> None, fed |-> 0]

\* The watchdog: call.fed counts the calls of it in the step taken last.
\* A sodaq_wdt_reset() that does nothing.
sodaq_wdt_reset_Never(c) == c

sodaq_wdt_reset(c) == [c EXCEPT !.fed = @ + 1]

\* sodaq_wdt_safe_delay(ms), which calls the watchdog while it waits;
\* call.slept is the delay made last.
sodaq_wdt_safe_delay(c, ms) == [c EXCEPT !.fed = @ + 1, !.slept = ms]

\* readResponse: an iteration of its loop up to the sodaq_wdt_reset() that
\* follows readLn.
Iteration(c) == sodaq_wdt_reset([c EXCEPT !.fed = 0])

\* Sodaq_N3X::Sodaq_N3X()
Init ==
    /\ closedBit = [s \in Sockets |-> TRUE]
    /\ pendingBytes = [s \in Sockets |-> 0]
    /\ pc = "idle"
    /\ call = NoCall
    /\ outBuffer = ""
    /\ inputBuffer = ""
    /\ observe = FALSE
    /\ rest = <<>>
    /\ nUnsol = 0
    /\ wire = <<>>

(***************************************************************************)
(* The notification dispatcher.                                            *)
(***************************************************************************)
InRange(id) == id >= 0 /\ id < SOCKET_COUNT

FmtUFOTAS == <<Lit("+UFOTAS:"), Ws, PctD, Lit(","), PctD>>
FmtUUSORF == <<Lit("+UUSORF:"), Ws, PctD, Lit(","), PctD>>
FmtUUSOCL == <<Lit("+UUSOCL:"), Ws, PctD>>
FmtCSCON == <<Lit("+CSCON:"), Ws, PctD>>

\* The body of checkURC, given what its four sscanf calls assign.
checkURCShapes(buffer, cb, pb, fota, data, clsd, cscon) ==
    LET same == [handled |-> TRUE, shape |-> None, param1 |-> -1, param2 |-> -1,
                 closedBit |-> cb, pendingBytes |-> pb]
    IN  IF CharAt(buffer, 1) # "+"
        THEN [same EXCEPT !.handled = FALSE]
        ELSE IF Len(fota) = 2
        THEN [same EXCEPT !.shape = "UFOTAS", !.param1 = fota[1],
                          !.param2 = fota[2]]
        ELSE IF Len(data) = 2
        THEN [same EXCEPT !.shape = "UUSORF", !.param1 = data[1],
                !.param2 = data[2],
                !.pendingBytes =
                    IF InRange(data[1])
                    THEN [pb EXCEPT ![data[1]] = UAdd(pb[data[1]], data[2])]
                    ELSE pb]
        ELSE IF Len(clsd) = 1
        THEN [same EXCEPT !.shape = "UUSOCL", !.param1 = clsd[1],
                !.closedBit =
                    IF InRange(clsd[1])
                    THEN [cb EXCEPT ![clsd[1]] = TRUE]
                    ELSE cb]
        ELSE IF Len(cscon) = 1
        THEN [same EXCEPT !.shape = "CSCON", !.param1 = cscon[1]]
        ELSE [same EXCEPT !.handled = FALSE]

\* A dispatcher that recognizes no line.
checkURCRecognizesNothing(buffer, cb, pb) ==
    [handled |-> FALSE, shape |-> None, param1 |-> -1, param2 |-> -1,
     closedBit |-> cb, pendingBytes |-> pb]

\* The values a sscanf assigned, the session id among them taken modulo the
\* size of the table.
WrapId(v) == IF v = <<>> THEN v ELSE [v EXCEPT ![1] = @ % SOCKET_COUNT]

\* A dispatcher that folds the session id into the table instead of
\* checking it.
checkURCWraps(buffer, cb, pb) ==
    checkURCShapes(buffer, cb, pb, sscanf(buffer, FmtUFOTAS),
                   WrapId(sscanf(buffer, FmtUUSORF)),
                   WrapId(sscanf(buffer, FmtUUSOCL)), sscanf(buffer, FmtCSCON))

\* Sodaq_N3X::checkURC: whether the line was handled, the shape it matched
\* with its parameters (param1, param2), and the socket table it leaves.
checkURC(buffer, cb, pb) ==
    checkURCShapes(buffer, cb, pb, sscanf(buffer, FmtUFOTAS),
                   sscanf(buffer, FmtUUSORF), sscanf(buffer, FmtUUSOCL),
                   sscanf(buffer, FmtCSCON))

(***************************************************************************)
(* The response matcher.                                                   *)
(***************************************************************************)
\* An append that puts no line break between the lines.
AppendUnseparated(out, outMaxSize, line, hasPrefix, prefix) ==
    LET skip == IF hasPrefix THEN Len(prefix) ELSE 0
        all == out \o SubSeq(line, skip + 1, Len(line))
    IN  SubSeq(all, 1, Min(Len(all), outMaxSize - 1))

\* The append of readResponse (the body of its last if): the payload after the
\* line `line` of `count` characters was appended.
AppendPayload(out, outMaxSize, line, hasPrefix, prefix) ==
    LET withLF == IF Len(out) > 0 /\ Len(out) < outMaxSize - 1
                  THEN out \o LF ELSE out
        skip == IF hasPrefix THEN Len(prefix) ELSE 0
        count0 == Len(line) - skip
        count == IF Len(withLF) + count0 > outMaxSize - 1
                 THEN outMaxSize - 1 - Len(withLF) ELSE count0
    IN  IF Len(withLF) < outMaxSize - 1
        THEN withLF \o SubSeq(line, skip + 1, skip + count)
        ELSE withLF

\* One iteration of readResponse's loop on a framed line (count > 0), given
\* its flags and what checkURC makes of the line: kind is what the iteration
\* did, resp the outcome it returns (None: the loop goes on), out the payload
\* and closedBit, pendingBytes the socket table it leaves.
matchLine(line, c, out, cb, pb, usePrefix, useOutBuffer, hasPrefix, urc) ==
    LET keep == [kind |-> "skip", resp |-> None, out |-> out,
                 shape |-> None, param1 |-> -1, param2 |-> -1,
                 closedBit |-> cb, pendingBytes |-> pb]
    IN  IF startsWith(STR_AT, line) THEN [keep EXCEPT !.kind = "echo"]
        ELSE IF startsWith(STR_RESPONSE_OK, line)
        THEN [keep EXCEPT !.kind = "final", !.resp = GSMResponseOK]
        ELSE IF \/ startsWith(STR_RESPONSE_ERROR, line)
                \/ startsWith(STR_RESPONSE_CME_ERROR, line)
                \/ startsWith(STR_RESPONSE_CMS_ERROR, line)
        THEN [keep EXCEPT !.kind = "final", !.resp = GSMResponseError]
        ELSE IF ~hasPrefix /\ urc.handled
        THEN [keep EXCEPT !.kind = "urc", !.shape = urc.shape,
                          !.param1 = urc.param1, !.param2 = urc.param2,
                          !.closedBit = urc.closedBit,
                          !.pendingBytes = urc.pendingBytes]
        ELSE IF hasPrefix \/ (~usePrefix /\ useOutBuffer)
        THEN [keep EXCEPT !.kind = "payload",
                !.out = AppendPayload(out, c.outMax, line, hasPrefix, c.prefix)]
        ELSE keep

\* The flags of readResponse for the call c.
UsePrefix(c) == c.prefix # ""
UseOutBuffer(c) == c.outGiven /\ c.outMax > 0
HasPrefix(c, line) ==
    UsePrefix(c) /\ UseOutBuffer(c) /\ startsWith(c.prefix, line)

readResponseLine(line, c, out, cb, pb) ==
    matchLine(line, c, out, cb, pb, UsePrefix(c), UseOutBuffer(c),
              HasPrefix(c, line), checkURC(line, cb, pb))

(***************************************************************************)
(* The socket manager: what each function does after readResponse          *)
(* returned resp with the payload out.                                     *)
(***************************************************************************)
FmtUSOCR == <<PctD>>
FmtUSORF ==
    <<Lit("+USORF:"), Ws, PctD, Lit(",\""), PctNotQuoteSkip, Lit("\","),
      PctDSkip, Lit(","), PctD, Lit(",\""), PctNotQuote, Lit("\"")>>

\* Sodaq_N3X::socketCreate, after readResponse and its sscanf (which assigned
\* v): whether it fails.
socketCreateFails(resp, v) ==
    \/ resp # GSMResponseOK
    \/ Len(v) # 1
    \/ v[1] < 0
    \/ v[1] > SOCKET_COUNT

\* A socketCreate that leaves the counter of the new session as it was.
socketCreateKeepsCounter(resp, v, fail) ==
    /\ call' = [call EXCEPT !.resp = resp,
                  !.ret = IF fail THEN SOCKET_FAIL ELSE v[1]]
    /\ IF ~fail /\ InRange(v[1])
       THEN /\ closedBit' = [closedBit EXCEPT ![v[1]] = TRUE]
            /\ UNCHANGED pendingBytes
       ELSE UNCHANGED <<closedBit, pendingBytes>>

socketCreateStore(resp, v, fail) ==
    /\ call' = [call EXCEPT !.resp = resp,
                  !.ret = IF fail THEN SOCKET_FAIL ELSE v[1],
                  \* socketID = SOCKET_COUNT: both stores land past the end
                  \* of the arrays
                  !.oobStores = IF fail \/ InRange(v[1]) THEN 0 ELSE 2]
    /\ IF ~fail /\ InRange(v[1])
       THEN /\ closedBit' = [closedBit EXCEPT ![v[1]] = TRUE]
            /\ pendingBytes' = [pendingBytes EXCEPT ![v[1]] = 0]
       ELSE UNCHANGED <<closedBit, pendingBytes>>

socketCreateParsed(resp, v) ==
    socketCreateStore(resp, v, socketCreateFails(resp, v))

socketCreateEnd(resp, out) == socketCreateParsed(resp, sscanf(out, FmtUSOCR))

\* Sodaq_N3X::socketConnect, after readResponse.
socketConnectEnd(resp) ==
    LET b == resp = GSMResponseOK IN
    /\ closedBit' = [closedBit EXCEPT ![call.sock] = ~b]
    /\ call' = [call EXCEPT !.resp = resp, !.ret = b]
    /\ UNCHANGED pendingBytes

\* Sodaq_N3X::socketClose, after readResponse.
socketCloseEnd(resp) ==
    /\ call' = [call EXCEPT !.resp = resp, !.ret = (resp = GSMResponseOK)]
    /\ UNCHANGED <<closedBit, pendingBytes>>

\* A socketReceive that does not check the session id of the reply.
socketReceiveSkipsRangeCheck(resp, v) ==
    \/ resp # GSMResponseOK
    \/ Len(v) # 3

\* Sodaq_N3X::socketReceive, after readResponse and its sscanf (which
\* assigned v): whether it returns 0 early.
socketReceiveFails(resp, v) ==
    \/ resp # GSMResponseOK
    \/ Len(v) # 3
    \/ v[1] < 0
    \/ v[1] >= SOCKET_COUNT

\* The stores of socketReceive.  retSize is a size_t that sscanf fills through
\* %d: taken as the number the modem sent (int and size_t have one width on
\* the boards the library targets).
socketReceiveStore(resp, v, fail) ==
    IF fail
    THEN /\ call' = [call EXCEPT !.resp = resp, !.ret = 0]
         /\ UNCHANGED <<closedBit, pendingBytes>>
    ELSE /\ pendingBytes' = [pendingBytes EXCEPT
               ![call.sock] = USub(pendingBytes[call.sock], v[2])]
         /\ call' = [call EXCEPT !.resp = resp, !.ret = v[2],
                       !.avail = pendingBytes[call.sock],
                       !.stored = IF call.hasBuf /\ call.reqSize > 0
                                  THEN v[2] ELSE 0]
         /\ UNCHANGED closedBit

socketReceiveParsed(resp, v) ==
    socketReceiveStore(resp, v, socketReceiveFails(resp, v))

socketReceiveEnd(resp, out) ==
    socketReceiveParsed(resp, sscanf(out, FmtUSORF))

\* Sodaq_N3X::execCommand and Sodaq_N3X::getCCID, after readResponse.
execCommandEnd(resp) ==
    /\ call' = [call EXCEPT !.resp = resp, !.ret = (resp = GSMResponseOK)]
    /\ UNCHANGED <<closedBit, pendingBytes>>

getCCIDEnd(resp, out) ==
    /\ call' = [call EXCEPT !.resp = resp,
                  !.ret = (resp = GSMResponseOK /\ Len(out) > 0)]
    /\ UNCHANGED <<closedBit, pendingBytes>>

\* Sodaq_N3X::socketSend, after readResponse and its sscanf (which assigned
\* v): whether it returns 0.
FmtUSOST == <<PctD, Lit(","), PctD>>

socketSendFails(resp, v) ==
    \/ resp # GSMResponseOK
    \/ Len(v) # 2
    \/ v[1] < 0
    \/ v[1] > SOCKET_COUNT

\* A socketSend that takes the bytes sent off the counter of the session.
socketSendCountsDown(resp, v, fail) ==
    /\ call' = [call EXCEPT !.resp = resp, !.ret = IF fail THEN 0 ELSE v[2]]
    /\ pendingBytes' = [pendingBytes EXCEPT ![call.sock] =
                          IF fail THEN @ ELSE USub(@, v[2])]
    /\ UNCHANGED closedBit

\* What socketSend returns and stores.
socketSendStore(resp, v, fail) ==
    /\ call' = [call EXCEPT !.resp = resp, !.ret = IF fail THEN 0 ELSE v[2]]
    /\ UNCHANGED <<closedBit, pendingBytes>>

socketSendParsed(resp, v) ==
    socketSendStore(resp, v, socketSendFails(resp, v))

\* Sodaq_N3X::socketSend after its execCommand (whose result it drops) and
\* after the readResponse of its send command.
socketSendEnd(resp, out) ==
    IF call.phase = "conf"
    THEN /\ pc' = "next"
         /\ call' = [call EXCEPT !.resp = resp]
         /\ UNCHANGED <<closedBit, pendingBytes>>
    ELSE /\ pc' = "done"
         /\ socketSendParsed(resp, sscanf(out, FmtUSOST))

\* Sodaq_N3X::socketCloseAll after the socketClose of session call.i
\* returned: call.ret is closedCount.
socketCloseAllEnd(resp) ==
    /\ pc' = IF call.i + 1 < SOCKET_COUNT THEN "next" ELSE "done"
    /\ call' = [call EXCEPT !.resp = resp, !.i = @ + 1,
                  !.ret = IF resp = GSMResponseOK THEN @ + 1 ELSE @]
    /\ UNCHANGED <<closedBit, pendingBytes>>

\* Conversions to int8_t and uint8_t.
Int8(x) == ((x + 128) % 256) - 128
Uint8(x) == x % 256

\* Sodaq_N3X::checkApn after readResponse, given what its sscanf assigns.
FmtCGDCONT ==
    <<Lit(",\""), PctNotQuote, Lit("\",\""), PctNotQuote, Lit("\",0,0,0,0")>>

checkApnParsed(resp, buffer, v, requiredAPN) ==
    IF resp # GSMResponseOK THEN -1
    ELSE IF MatchesAt(buffer, 1, "1,\"IP\"") /\ ~MatchesAt(buffer, 7, ",\"\"")
    THEN IF Len(v) # 2 THEN -1
         ELSE IF v[1] = requiredAPN
         THEN IF Len(v[2]) >= 7 /\ v[2] # "0.0.0.0" THEN 1 ELSE 0
         ELSE -1
    ELSE -1

checkApn(resp, buffer, requiredAPN) ==
    checkApnParsed(resp, buffer,
                   sscanf(IF Len(buffer) > 6
                          THEN SubSeq(buffer, 7, Len(buffer)) ELSE "",
                          FmtCGDCONT),
                   requiredAPN)

\* Sodaq_N3X::getRSSIAndBER after readResponse with what its sscanf assigns,
\* and the test waitForSignalQuality makes of it: whether the signal
\* quality is good enough (_minRSSI is -113).
FmtCSQ == <<PctD, Lit(","), PctD>>

convertCSQ2RSSI(csq) == Int8(-113 + 2 * Uint8(csq))

signalQualityParsed(resp, v) ==
    /\ resp = GSMResponseOK
    /\ Len(v) = 2
    /\ LET rssi == IF v[1] = 99 THEN 0 ELSE convertCSQ2RSSI(v[1])
       IN  rssi # 0 /\ rssi >= -113

\* Polls of the APN-verify loop of connect().
ApnPolls == 20
\* Signal-quality polls before waitForSignalQuality times out at the latest.
MaxCsqPolls == 2
\* Attach polls before attachGprs times out at the latest.
MaxAttachPolls == 6
\* Iterations of the other loops that end on the clock (purge, the waits of
\* reboot, socketWaitForReceive) before their time is up at the latest.
MaxTimedPolls == 2
\* isAlive() polls of on(), and getSimStatus() polls of doSIMcheck().
AlivePolls == 10
SimPolls == 10
\* REBOOT_DELAY, ATTACH_TIMEOUT and ATTACH_NEED_REBOOT
REBOOT_DELAY == 1250
ATTACH_TIMEOUT == 180000
ATTACH_NEED_REBOOT == 40000

\* connect(): it goes on with the step `phase`, it repeats the poll of its
\* step, or it returns.
Goto(c, phase) ==
    /\ pc' = "next"
    /\ call' = [c EXCEPT !.phase = phase, !.i = 0, !.delay = 500, !.slept = 0]

Again(c) ==
    /\ pc' = "next"
    /\ call' = [c EXCEPT !.i = @ + 1]

Finish(c, result) ==
    /\ pc' = "done"
    /\ call' = [c EXCEPT !.ret = result]

\* A connect() that goes on after a step that failed.
MustIgnored(c, ok, phase) == Goto(c, phase)

\* connect(): a step that must succeed (the if (!...) return false of lines
\* 177-212).
Must(c, ok, phase) == IF ok THEN Goto(c, phase) ELSE Finish(c, FALSE)

\* The delay of a polling loop and the growth of delay_count after it
\* (lines 272-276 and 1108-1113).
Backoff(c) ==
    [sodaq_wdt_safe_delay(c, c.delay) EXCEPT
        !.delay = IF @ < 5000 THEN @ + 1000 ELSE @,
        !.i = @ + 1]

\* The test of a polling loop that ends on the clock, after c.i polls: it
\* polls again or returns false; late is whether the time of the loop is
\* more than ATTACH_NEED_REBOOT (call.late: that much time has passed since
\* tm was taken at line 226).
PollAgain(c, cap, late) ==
    \E timedout \in BOOLEAN :
       /\ c.i >= cap => timedout
       /\ IF timedout THEN Finish([c EXCEPT !.late = @ \/ late], FALSE)
          ELSE pc' = "next" /\ call' = c

\* Sodaq_N3X::on after an isAlive(); isOn() is what the power switch says.
onEnd(c, ok) ==
    IF ok
    THEN \E isOn \in BOOLEAN :
            IF isOn THEN Goto(c, "purge") ELSE Finish(c, FALSE)
    ELSE IF c.i + 1 < AlivePolls THEN Again(c) ELSE Finish(c, FALSE)

\* Sodaq_N3X::purgeAllResponsesRead after a readResponse.
purgeAllResponsesReadEnd(c, resp) ==
    \E timedout \in BOOLEAN :
       /\ c.i + 1 >= MaxTimedPolls => timedout
       /\ IF resp # GSMResponseTimeout /\ ~timedout
          THEN Again(c) ELSE Goto(c, "ATE0")

\* Sodaq_N3X::checkCFUN after readResponse, and the step of connect() that
\* follows it.
AfterCFUN(c) == IF c.band # "" THEN "UBANDSEL" ELSE "CFGDFTPDN?"

checkCFUNEnd(c, ok, buffer) ==
    IF ~ok THEN Finish(c, FALSE)
    ELSE IF Len(buffer) > 0 /\ CharAt(buffer, 1) = "1"
    THEN Goto(c, AfterCFUN(c))
    ELSE Goto(c, "CFUN=1")

\* Sodaq_N3X::setDefaultApn after readResponse, given what its two sscanf
\* assign, and the step of connect() that follows it (setOperator skips an
\* empty operator).
FmtDefaultApn == <<PctD, Lit(",\""), PctNotQuote, Lit("\"")>>
FmtNoDefaultApn == <<PctD, Lit(",\"\"")>>

AfterDefaultApn(c) == IF c.opr = "" THEN "CGDCONT=" ELSE "COPS"

setDefaultApnParsed(c, ok, v, w, apn) ==
    IF ~ok THEN Finish(c, FALSE)
    ELSE IF Len(v) # 2
    THEN IF Len(w) # 1 THEN Finish(c, FALSE) ELSE Goto(c, "CFGDFTPDN=")
    ELSE IF v[1] = 1 /\ v[2] = apn THEN Goto(c, AfterDefaultApn(c))
    ELSE Goto(c, "CFGDFTPDN=")

\* Sodaq_N3X::getSimStatus after readResponse.  STR(sizeof(status) - 1)
\* makes the text "sizeof(status) - 1" of its argument, so the format is
\* "+CPIN: %sizeof(status) - 1s": a %s without a width and literal text
\* after it.
FmtCPIN ==
    <<Lit("+CPIN:"), Ws, PctS, Lit("izeof(status)"), Ws, Lit("-"), Ws,
      Lit("1s")>>

getSimStatusParsed(resp, v) ==
    IF resp # GSMResponseOK THEN "SimStatusUnknown"
    ELSE IF Len(v) = 1
    THEN IF startsWith("READY", v[1]) THEN "SimReady" ELSE "SimNeedsPin"
    ELSE "SimMissing"

getSimStatus(resp, buffer) == getSimStatusParsed(resp, sscanf(buffer, FmtCPIN))

\* Sodaq_N3X::isDefinedIP4 after readResponse, given what its sscanf
\* assigns.
FmtIP4 ==
    <<Lit(",\""), PctNotQuoteSkip, Lit("\",\""), PctNotQuote,
      Lit("\",0,0,0,0")>>

isDefinedIP4Parsed(resp, buffer, v) ==
    /\ resp = GSMResponseOK
    /\ MatchesAt(buffer, 1, "1,\"IP\"")
    /\ ~MatchesAt(buffer, 7, ",\"\"")
    /\ Len(v) = 1
    /\ Len(v[1]) >= 7
    /\ v[1] # "0.0.0.0"

isDefinedIP4(resp, buffer) ==
    isDefinedIP4Parsed(resp, buffer,
                       sscanf(IF Len(buffer) > 6
                              THEN SubSeq(buffer, 7, Len(buffer)) ELSE "",
                              FmtIP4))

\* A connect() that reboots whatever the time is.
connectRebootsAnyway(late) == TRUE

\* connect(): the test of line 236; late is whether millis() - tm is more
\* than ATTACH_NEED_REBOOT.
connectNeedsReboot(late) == late

\* connect() after the first waitForSignalQuality and attachGprs (line
\* 236), and after those that follow the reboot (line 248).
afterAttach(c) ==
    IF c.reboots > 0 THEN Goto(c, "sim")
    ELSE \E late \in BOOLEAN :
            IF connectNeedsReboot(late)
            THEN Goto([c EXCEPT !.late = late, !.reboots = @ + 1], "CFUN=16")
            ELSE Goto([c EXCEPT !.late = late], "sim")

\* A connect() that makes its attach polling whatever the APN-verify loop
\* found.
afterSignalAttaches(c) == Goto(c, "attach")

\* connect() after a waitForSignalQuality that succeeded (lines 232 and
\* 243): attachGprs is left out when the APN-verify loop found an address
\* and no reboot was made.
afterSignal(c) ==
    IF c.j = 0 \/ c.reboots > 0 THEN Goto(c, "attach") ELSE afterAttach(c)

\* Sodaq_N3X::attachGprs after an isDefinedIP4().
attachGprsEnd(c, defined) ==
    IF defined THEN afterAttach(c)
    ELSE PollAgain(Backoff(c), MaxAttachPolls,
                   ATTACH_TIMEOUT >= ATTACH_NEED_REBOOT)

\* Sodaq_N3X::reboot after a readResponse of its first loop, and after a
\* getSimStatus() of its second loop.
rebootRead(c, resp) ==
    \E timedout \in BOOLEAN :
       /\ c.i + 1 >= MaxTimedPolls => timedout
       /\ IF resp # GSMResponseOK /\ ~timedout
          THEN Again(c)
          ELSE Goto(sodaq_wdt_safe_delay(c, REBOOT_DELAY), "CPIN")

rebootSim(c, status) ==
    \E timedout \in BOOLEAN :
       /\ c.i + 1 >= MaxTimedPolls => timedout
       /\ IF status # "SimReady" /\ ~timedout
          THEN Again(c)
          ELSE Goto(c, "reboot ATE0")

\* A doSIMcheck that takes the SIM for ready whatever getSimStatus found.
doSIMcheckAnyStatus(c, status) == Finish([c EXCEPT !.sim = status], TRUE)

\* Sodaq_N3X::doSIMcheck after a getSimStatus(); call.sim is the status
\* found last.
doSIMcheckEnd(c, status) ==
    IF status = "SimReady" THEN Finish([c EXCEPT !.sim = status], TRUE)
    ELSE IF c.i + 1 < SimPolls
    THEN Again(sodaq_wdt_safe_delay([c EXCEPT !.sim = status], 250))
    ELSE Finish([c EXCEPT !.sim = status], FALSE)

\* A connect() that goes on whatever the APN-verify loop found.
connectNeverGivesUp(j) == FALSE

\* connect(): the test after the APN-verify loop.
connectGivesUp(j) == j < 0

\* connect() after the checkApn of its APN-verify loop returned j: the loop
\* goes on, or ends in the return of false or in waitForSignalQuality.
connectVerified(resp, j) ==
    LET c == [sodaq_wdt_safe_delay(Iteration(call), 3000) EXCEPT
                 !.resp = resp, !.j = j, !.i = IF j > 0 THEN @ ELSE @ + 1]
    IN  IF j <= 0 /\ c.i < ApnPolls
        THEN /\ pc' = "next"
             /\ call' = c
        ELSE IF connectGivesUp(j) THEN Finish(c, FALSE)
        ELSE Goto(c, "csq")

\* connect() after a getRSSIAndBER of waitForSignalQuality: with a good
\* signal quality it goes on past waitForSignalQuality (a call that is not
\* followed to its end is left there, at phase "attach"); else it polls
\* again until the time of waitForSignalQuality is up, and then returns
\* false.
connectSignal(resp, good) ==
    LET c == [Iteration(call) EXCEPT !.resp = resp]
    IN  IF good
        THEN IF c.whole THEN afterSignal(c)
             ELSE /\ pc' = "done"
                  /\ call' = [c EXCEPT !.phase = "attach"]
        ELSE PollAgain(Backoff(c), MaxCsqPolls, FALSE)

\* connect(), followed from its start to its end, after the readResponse
\* of a step other than the APN-verify loop and waitForSignalQuality.
connectStep(c, resp, out) ==
    CASE c.phase = "alive" -> onEnd(c, resp = GSMResponseOK)
      [] c.phase = "purge" -> purgeAllResponsesReadEnd(c, resp)
      [] c.phase = "ATE0" -> Must(c, resp = GSMResponseOK, "CMEE")
      [] c.phase = "CMEE" -> Must(c, resp = GSMResponseOK, "CIPCA")
      [] c.phase = "CIPCA" -> Must(c, resp = GSMResponseOK, "CFUN?")
      [] c.phase = "CFUN?" -> checkCFUNEnd(c, resp = GSMResponseOK, out)
      [] c.phase = "CFUN=1" -> Must(c, resp = GSMResponseOK, AfterCFUN(c))
      [] c.phase = "UBANDSEL" -> Must(c, resp = GSMResponseOK, "CFGDFTPDN?")
      [] c.phase = "CFGDFTPDN?" ->
           setDefaultApnParsed(c, resp = GSMResponseOK,
                               sscanf(out, FmtDefaultApn),
                               sscanf(out, FmtNoDefaultApn), RequiredApn)
      [] c.phase = "CFGDFTPDN=" ->
           Must(c, resp = GSMResponseOK, AfterDefaultApn(c))
      [] c.phase = "COPS" -> Must(c, resp = GSMResponseOK, "CGDCONT=")
      [] c.phase = "CGDCONT=" -> Must(c, resp = GSMResponseOK, "CGACT")
      [] c.phase = "CGACT" -> Must(c, resp = GSMResponseOK, "verify")
      [] c.phase = "attach" -> attachGprsEnd(c, isDefinedIP4(resp, out))
      [] c.phase = "CFUN=16" -> rebootRead(c, resp)
      [] c.phase = "CPIN" -> rebootSim(c, getSimStatus(resp, out))
      [] c.phase = "reboot ATE0" -> Goto(c, "drain")
      [] c.phase = "drain" -> Goto(c, "csq")
      [] c.phase = "sim" -> doSIMcheckEnd(c, getSimStatus(resp, out))

connectEnd(resp, out) ==
    /\ CASE call.phase = "verify" ->
              connectVerified(resp, checkApn(resp, out, RequiredApn))
         [] call.phase = "csq" ->
              connectSignal(resp, signalQualityParsed(resp, sscanf(out, FmtCSQ)))
         [] OTHER ->
              connectStep([Iteration(call) EXCEPT !.resp = resp], resp, out)
    /\ UNCHANGED <<closedBit, pendingBytes>>

\* Sodaq_N3X::socketWaitForReceive after an isAlive() returned: it goes into
\* its delay.
socketWaitEnd(resp) ==
    /\ pc' = "next"
    /\ call' = [sodaq_wdt_safe_delay(Iteration(call), 10) EXCEPT
                  !.resp = resp, !.i = @ + 1]
    /\ UNCHANGED <<closedBit, pendingBytes>>

\* The return of readResponse into the function that called it.
Return(resp, out) ==
    /\ rest' = <<>>
    /\ nUnsol' = 0
    /\ inputBuffer' = ""
    /\ CASE call.op = "socketCreate" ->
              pc' = "done" /\ socketCreateEnd(resp, out)
         [] call.op = "socketConnect" ->
              pc' = "done" /\ socketConnectEnd(resp)
         [] call.op = "socketClose" ->
              pc' = "done" /\ socketCloseEnd(resp)
         [] call.op = "socketReceive" ->
              pc' = "done" /\ socketReceiveEnd(resp, out)
         [] call.op = "execCommand" ->
              pc' = "done" /\ execCommandEnd(resp)
         [] call.op = "getCCID" ->
              pc' = "done" /\ getCCIDEnd(resp, out)
         [] call.op = "socketSend" -> socketSendEnd(resp, out)
         [] call.op = "socketCloseAll" -> socketCloseAllEnd(resp)
         [] call.op = "connect" -> connectEnd(resp, out)
         [] call.op = "socketWaitForReceive" -> socketWaitEnd(resp)

(***************************************************************************)
(* The API calls: each writes its command and enters readResponse.         *)
(***************************************************************************)
\* readResponse as it starts for the call c, the modem about to reply with
\* plan: outBuffer[0] = 0 is stored whenever a buffer is given (call.nul:
\* outBuffer[outSize] holds the terminator; call.pastCapacity: stores at or
\* past outBuffer[outMaxSize]).
Entered(c, plan) ==
    [c EXCEPT !.reply = plan, !.nul = TRUE, !.stream = <<>>, !.fed = 0,
              !.pastCapacity = @ + IF c.outGiven /\ c.outMax = 0 THEN 1 ELSE 0]

Enter(c, command, replies) ==
    /\ pc = "idle"
    /\ pc' = "wait"
    /\ wire' = <<command>>
    /\ outBuffer' = ""
    /\ nUnsol' = 0
    /\ \E plan \in replies :
          /\ rest' = plan
          /\ call' = Entered(c, plan)
    /\ UNCHANGED <<inputBuffer, observe>>

\* (localPort, protocol) of the socketCreate calls made.
CreateArgs == {<<0, "UDP">>, <<5, "TCP">>}
\* (remoteHost, remotePort) of the socketConnect calls made.
ConnectArgs == <<"1.2.3.4", 80>>

socketCreate(localPort, protocol) ==
    /\ Enter([NoCall EXCEPT !.op = "socketCreate", !.outGiven = TRUE,
                !.outMax = CreateBufferSize, !.prefix = "+USOCR: "],
             "AT+USOCR=" \o (IF protocol = "UDP" THEN "17" ELSE "6")
                 \o (IF localPort > 0 THEN "," \o ToString(localPort) ELSE ""),
             CreateReplies)
    /\ UNCHANGED <<closedBit, pendingBytes>>

socketConnect(socketID) ==
    /\ Enter([NoCall EXCEPT !.op = "socketConnect", !.sock = socketID,
                !.pre = pendingBytes[socketID]],
             "AT+USOCO=" \o ToString(socketID) \o ",\"" \o ConnectArgs[1]
                 \o "\"," \o ToString(ConnectArgs[2]),
             PlainReplies)
    /\ UNCHANGED <<closedBit, pendingBytes>>

socketClose(socketID, async) ==
    /\ Enter([NoCall EXCEPT !.op = "socketClose", !.sock = socketID,
                !.pre = pendingBytes[socketID]],
             "AT+USOCL=" \o ToString(socketID)
                 \o (IF async THEN ",1" ELSE ""),
             PlainReplies)
    /\ closedBit' = [closedBit EXCEPT ![socketID] = TRUE]
    /\ pendingBytes' = [pendingBytes EXCEPT ![socketID] = 0]

\* A socketReceive that asks the modem whatever the counter holds.
socketReceiveAlwaysAsks(socketID, hasBuf, size) ==
    /\ Enter([NoCall EXCEPT !.op = "socketReceive", !.sock = socketID,
                !.hasBuf = hasBuf, !.size = size,
                !.reqSize = Min(size, Min(SODAQ_N3X_MAX_UDP_BUFFER,
                                          pendingBytes[socketID])),
                !.pre = pendingBytes[socketID],
                !.outGiven = TRUE,
                !.outMax = SODAQ_N3X_MAX_UDP_BUFFER],
             "AT+USORF=" \o ToString(socketID),
             ReceiveReplies(socketID))
    /\ UNCHANGED <<closedBit, pendingBytes>>

socketReceive(socketID, hasBuf, size) ==
    IF pendingBytes[socketID] = 0
    THEN /\ pc = "idle"
         /\ pc' = "done"
         /\ call' = [NoCall EXCEPT !.op = "socketReceive", !.sock = socketID,
                       !.hasBuf = hasBuf, !.size = size, !.ret = 0]
         /\ UNCHANGED <<closedBit, pendingBytes, outBuffer, inputBuffer,
                        observe, rest, nUnsol, wire>>
    ELSE /\ Enter([NoCall EXCEPT !.op = "socketReceive", !.sock = socketID,
                     !.hasBuf = hasBuf, !.size = size,
                     !.reqSize = Min(size, Min(SODAQ_N3X_MAX_UDP_BUFFER,
                                               pendingBytes[socketID])),
                     !.pre = pendingBytes[socketID],
                     !.outGiven = TRUE,
                     !.outMax = SODAQ_N3X_MAX_UDP_BUFFER],
                  "AT+USORF=" \o ToString(socketID),
                  ReceiveReplies(socketID))
         /\ UNCHANGED <<closedBit, pendingBytes>>

CCIDBufferSize == 21

\* (command, buffer != NULL, size) of the execCommand calls made: as isAlive()
\* and as getFirmwareVersion() call it.
ExecArgs == {<<STR_AT, FALSE, 0>>, <<"AT+CGMR", TRUE, CCIDBufferSize>>}

execCommand(command, hasBuf, size) ==
    /\ Enter([NoCall EXCEPT !.op = "execCommand", !.outGiven = hasBuf,
                !.outMax = size],
             command, IF hasBuf THEN InfoReplies ELSE PlainReplies)
    /\ UNCHANGED <<closedBit, pendingBytes>>

getCCID ==
    /\ Enter([NoCall EXCEPT !.op = "getCCID", !.outGiven = TRUE,
                !.outMax = CCIDBufferSize, !.prefix = "+CCID: "],
             "AT+CCID", InfoReplies)
    /\ UNCHANGED <<closedBit, pendingBytes>>

(***************************************************************************)
(* The functions that write more than one command: after a readResponse    *)
(* returned into them (pc = "next") they write the next command and enter  *)
(* readResponse again.                                                     *)
(***************************************************************************)
\* readResponse entered again with the commands w written.
Reenter(c, w, replies) ==
    /\ pc = "next"
    /\ pc' = "wait"
    /\ wire' = w
    /\ outBuffer' = ""
    /\ nUnsol' = 0
    /\ \E plan \in replies :
          /\ rest' = c.stream \o plan
          /\ call' = Entered(c, plan)
    /\ UNCHANGED <<inputBuffer, observe>>

Continue(c, command, replies) == Reenter(c, Append(wire, command), replies)

\* Largest payload socketSend accepts (the header's
\* SODAQ_MAX_SEND_MESSAGE_SIZE, scaled down).
SODAQ_MAX_SEND_MESSAGE_SIZE == 2
\* sizeof(outBuffer) in socketSend.
SendBufferSize == 64

\* The payloads of the socketSend calls made, one of each size.
SendPayloads ==
    {[k \in 1 .. n |-> 154] : n \in 0 .. (SODAQ_MAX_SEND_MESSAGE_SIZE + 1)}

\* The socketSend call as it starts.
SendCall(socketID, buffer) ==
    [NoCall EXCEPT !.op = "socketSend", !.sock = socketID, !.buffer = buffer,
                   !.size = Len(buffer), !.pre = pendingBytes[socketID],
                   !.table = <<closedBit, pendingBytes>>]

\* A socketSend that takes a payload of any size.
socketSendUnchecked(socketID, buffer) ==
    /\ Enter([SendCall(socketID, buffer) EXCEPT !.phase = "conf"],
             "AT+UDCONF=1,1", PlainReplies)
    /\ UNCHANGED <<closedBit, pendingBytes>>

\* Sodaq_N3X::socketSend up to its first readResponse (in execCommand); the
\* remote host and port are those of ConnectArgs.
socketSend(socketID, buffer) ==
    IF Len(buffer) > SODAQ_MAX_SEND_MESSAGE_SIZE
    THEN /\ pc = "idle"
         /\ pc' = "done"
         /\ call' = [SendCall(socketID, buffer) EXCEPT !.ret = 0]
         /\ UNCHANGED <<closedBit, pendingBytes, outBuffer, inputBuffer,
                        observe, rest, nUnsol, wire>>
    ELSE /\ Enter([SendCall(socketID, buffer) EXCEPT !.phase = "conf"],
                  "AT+UDCONF=1,1", PlainReplies)
         /\ UNCHANGED <<closedBit, pendingBytes>>

\* Sodaq_N3X::socketSend from the return of execCommand to its second
\* readResponse.
socketSendCommand ==
    /\ call.op = "socketSend"
    /\ Continue([call EXCEPT !.phase = "send", !.outGiven = TRUE,
                   !.outMax = SendBufferSize, !.prefix = "+USOST: "],
                "AT+USOST=" \o ToString(call.sock) \o ",\"" \o ConnectArgs[1]
                    \o "\"," \o ToString(ConnectArgs[2]) \o ","
                    \o ToString(call.size) \o ",\""
                    \o HexPrinted(call.buffer, 1) \o "\"",
                SendReplies(call.sock, call.size))
    /\ UNCHANGED <<closedBit, pendingBytes>>

\* Sodaq_N3X::socketCloseAll up to the readResponse of its first
\* socketClose.
socketCloseAll ==
    /\ Enter([NoCall EXCEPT !.op = "socketCloseAll", !.ret = 0,
                !.table = <<closedBit, pendingBytes>>],
             "AT+USOCL=" \o ToString(0), PlainReplies)
    /\ closedBit' = [closedBit EXCEPT ![0] = TRUE]
    /\ pendingBytes' = [pendingBytes EXCEPT ![0] = 0]

\* Sodaq_N3X::socketCloseAll: the socketClose of session call.i.
socketCloseAllNext ==
    /\ call.op = "socketCloseAll"
    /\ Continue(call, "AT+USOCL=" \o ToString(call.i), PlainReplies)
    /\ closedBit' = [closedBit EXCEPT ![call.i] = TRUE]
    /\ pendingBytes' = [pendingBytes EXCEPT ![call.i] = 0]

\* Sodaq_N3X::socketWaitForReceive up to the readResponse of its first
\* isAlive(), or to its return without one: up is whether the time
\* (millis() - startTime) has reached the timeout at the test of the loop.
socketWaitForReceive(socketID) ==
    LET c == [NoCall EXCEPT !.op = "socketWaitForReceive",
                            !.sock = socketID, !.pre = pendingBytes[socketID]]
    IN  \E up \in BOOLEAN :
           /\ IF pendingBytes[socketID] > 0 \/ up
              THEN /\ pc = "idle"
                   /\ pc' = "done"
                   /\ call' = [c EXCEPT !.ret = pendingBytes[socketID] > 0]
                   /\ UNCHANGED <<outBuffer, inputBuffer, observe, rest,
                                  nUnsol, wire>>
              ELSE Enter(c, STR_AT, PlainReplies)
           /\ UNCHANGED <<closedBit, pendingBytes>>

\* Sodaq_N3X::socketWaitForReceive from the end of its delay: the test of
\* the loop, and the next isAlive() or the return.
socketWaitNext ==
    /\ call.op = "socketWaitForReceive"
    /\ \E up \in BOOLEAN :
          /\ call.i >= MaxTimedPolls => up
          /\ IF pendingBytes[call.sock] > 0 \/ up
             THEN /\ pc = "next"
                  /\ pc' = "done"
                  /\ call' = [call EXCEPT !.ret = pendingBytes[call.sock] > 0]
                  /\ UNCHANGED <<outBuffer, inputBuffer, observe, rest,
                                 nUnsol, wire>>
             ELSE Continue(call, STR_AT, PlainReplies)
    /\ UNCHANGED <<closedBit, pendingBytes>>

\* sizeof(buffer) in checkApn and in getRSSIAndBER.
ApnBufferSize == 256
CsqBufferSize == 256

\* Sodaq_N3X::connect from its APN-verify loop on (line 212: the set-up
\* commands before it succeeded), up to the readResponse of the first
\* checkApn.
connect ==
    /\ Enter([NoCall EXCEPT !.op = "connect", !.phase = "verify",
                !.outGiven = TRUE, !.outMax = ApnBufferSize,
                !.prefix = "+CGDCONT: "],
             "AT+CGDCONT?", ApnReplies)
    /\ UNCHANGED <<closedBit, pendingBytes>>

\* Sodaq_N3X::connect: the next checkApn of the loop, or the next
\* getRSSIAndBER of waitForSignalQuality.
connectNext ==
    /\ call.op = "connect"
    /\ IF call.phase = "verify"
       THEN Continue(call, "AT+CGDCONT?", ApnReplies)
       ELSE Continue([call EXCEPT !.outMax = CsqBufferSize,
                                  !.prefix = "+CSQ: "],
                     "AT+CSQ", CsqReplies)
    /\ UNCHANGED <<closedBit, pendingBytes>>

\* (forceOperator, bandSel) of the connect() calls made: "" is no operator
\* and no band.
ConnectCalls == {<<"", "">>, <<"0", "8">>, <<"20408", "8">>}

\* The command connect() writes in the step c.phase (None: it reads without
\* a command), the capacity of the buffer it hands to readResponse with the
\* prefix, and the replies of the modem.
Step(cmd, max, prefix, replies) ==
    [cmd |-> cmd, max |-> max, prefix |-> prefix, replies |-> replies]

connectCommand(c) ==
    CASE c.phase = "alive" -> Step(STR_AT, 0, "", PlainReplies)
      [] c.phase = "purge" -> Step(None, 0, "", PlainReplies)
      [] c.phase = "ATE0" -> Step("ATE0", 0, "", PlainReplies)
      [] c.phase = "CMEE" -> Step("AT+CMEE=1", 0, "", PlainReplies)
      [] c.phase = "CIPCA" -> Step("AT+CIPCA=0", 0, "", PlainReplies)
      [] c.phase = "CFUN?" -> Step("AT+CFUN?", 64, "+CFUN: ", CfunReplies)
      [] c.phase = "CFUN=1" -> Step("AT+CFUN=1", 0, "", PlainReplies)
      [] c.phase = "UBANDSEL" ->
           Step("AT+UBANDSEL=" \o c.band, 0, "", PlainReplies)
      [] c.phase = "CFGDFTPDN?" ->
           Step("AT+CFGDFTPDN?", 100, "+CFGDFTPDN: ", DefaultApnReplies)
      [] c.phase = "CFGDFTPDN=" ->
           Step("AT+CFGDFTPDN=1,\"" \o RequiredApn \o "\"", 0, "",
                PlainReplies)
      [] c.phase = "COPS" ->
           Step(IF c.opr = "0" THEN "AT+COPS=0"
                ELSE "AT+COPS=1,2,\"" \o c.opr \o "\"", 0, "", PlainReplies)
      [] c.phase = "CGDCONT=" ->
           Step("AT+CGDCONT=1,\"IP\",\"" \o RequiredApn \o "\"", 0, "",
                PlainReplies)
      [] c.phase = "CGACT" -> Step("AT+CGACT=1", 0, "", PlainReplies)
      [] c.phase = "verify" ->
           Step("AT+CGDCONT?", ApnBufferSize, "+CGDCONT: ", ApnReplies)
      [] c.phase = "csq" -> Step("AT+CSQ", CsqBufferSize, "+CSQ: ", CsqReplies)
      [] c.phase = "attach" ->
           Step("AT+CGDCONT?", ApnBufferSize, "+CGDCONT: ", ApnReplies)
      [] c.phase = "CFUN=16" ->
           Step(IF c.i = 0 THEN "AT+CFUN=16" ELSE None, 0, "", PlainReplies)
      [] c.phase = "CPIN" -> Step("AT+CPIN?", 32, "", SimReplies)
      [] c.phase = "reboot ATE0" -> Step("ATE0", 0, "", PlainReplies)
      [] c.phase = "drain" -> Step(None, 0, "", PlainReplies)
      [] c.phase = "sim" -> Step("AT+CPIN?", 32, "", SimReplies)

\* Sodaq_N3X::connect up to the readResponse of the first isAlive() of
\* on(); the state keeps the command written last.
connectCall(forceOperator, bandSel) ==
    /\ Enter([NoCall EXCEPT !.op = "connect", !.whole = TRUE,
                !.phase = "alive", !.opr = forceOperator, !.band = bandSel],
             STR_AT, PlainReplies)
    /\ UNCHANGED <<closedBit, pendingBytes>>

\* Sodaq_N3X::connect: the next readResponse, with the command connect()
\* writes before it.
connectGoesOn(k) ==
    /\ call.op = "connect"
    /\ call.whole
    /\ Reenter([call EXCEPT !.outGiven = k.max > 0, !.outMax = k.max,
                            !.prefix = k.prefix],
               IF k.cmd = None THEN wire ELSE <<k.cmd>>, k.replies)
    /\ UNCHANGED <<closedBit, pendingBytes>>

(***************************************************************************)
(* readResponse at work: the modem's lines and the deadline.               *)
(***************************************************************************)
\* Whether outBuffer[outSize] holds the terminator after an iteration of
\* kind `kind` on the payload out: the append stores the line break over
\* the terminator and stores a new terminator only if room is left for the
\* line (lines 1039-1054); if not, the character after the line break is one
\* the caller's buffer held before, which may or may not be 0.
TerminatorAfter(kind, out, outMaxSize, nul) ==
    IF kind # "payload" THEN {nul}
    ELSE LET lf == Len(out) > 0 /\ Len(out) < outMaxSize - 1
             outSize == Len(out) + IF lf THEN 1 ELSE 0
         IN  IF outSize < outMaxSize - 1 THEN {TRUE}
             ELSE IF lf THEN BOOLEAN
             ELSE {nul}

\* One iteration of the loop of readResponse on the framed line `line`, which
\* matchLine made r of; left is what remains of the modem's reply if the loop
\* goes on.
ReadLineAs(line, left, r) ==
    /\ outBuffer' = r.out
    /\ IF r.resp # None
       THEN Return(r.resp, r.out)
       ELSE /\ inputBuffer' = IF observe THEN line ELSE ""
            /\ closedBit' = r.closedBit
            /\ pendingBytes' = r.pendingBytes
            /\ \E z \in TerminatorAfter(r.kind, outBuffer, call.outMax,
                                        call.nul) :
                  call' = [Iteration(call) EXCEPT
                     !.absorbed = IF r.shape = "UUSORF" /\ r.param1 = call.sock
                                  THEN @ + r.param2 ELSE @,
                     !.closeUrc = @ \/ (r.shape = "UUSOCL"
                                          /\ r.param1 = call.sock),
                     !.nul = z]
            /\ rest' = left
            /\ UNCHANGED pc

ReadLine(line, left) ==
    ReadLineAs(line, left,
               readResponseLine(line, call, outBuffer, closedBit, pendingBytes))

\* The modem sends the next line of its reply to the command.
ModemReply ==
    /\ pc = "wait"
    /\ rest # <<>>
    /\ ReadLine(Head(rest), Tail(rest))
    /\ IF pc' = "wait" THEN nUnsol' = nUnsol ELSE TRUE
    /\ UNCHANGED <<observe, wire>>

\* The echo of the command written last.
Echo == wire[Len(wire)]

\* The data-arrival notifications the modem may send now for the ids `ids`:
\* the counter of a session is not driven past the largest size_t by arrivals
\* alone.
Arriving(ids) ==
    {UUSORF(x[1], x[2]) :
        x \in {y \in ids \X (1 .. MaxUrcBytes) :
                 InRange(y[1]) => pendingBytes[y[1]] + y[2] < SizeMod}}

\* The socket-closed notifications of the sessions that exist.
SessionCloseUrcs == {UUSOCL(id) : id \in Sockets}

Unsolicited ==
    Arriving(UrcIds) \cup CloseUrcs \cup LoggedUrcs \cup {Echo, UnknownPlusLine}

\* The modem sends a line that is no part of its reply.
ModemSends(lines) ==
    /\ pc = "wait"
    /\ nUnsol < MaxUnsolicited
    /\ \E line \in lines : ReadLine(line, rest)
    /\ IF pc' = "wait" THEN nUnsol' = nUnsol + 1 ELSE TRUE
    /\ UNCHANGED <<observe, wire>>

\* The echo of the command, a notification, or a stray line.
ModemUnsolicited == ModemSends(Unsolicited)

\* The deadline of readResponse passes before a terminal line arrived.
Deadline ==
    /\ pc = "wait"
    /\ Return(GSMResponseTimeout, outBuffer)
    /\ UNCHANGED <<outBuffer, observe, wire>>

\* The caller takes the result of the call that returned; the locals of the
\* call are gone.
Resume ==
    /\ pc = "done"
    /\ pc' = "idle"
    /\ call' = NoCall
    /\ outBuffer' = ""
    /\ wire' = <<>>
    /\ UNCHANGED <<closedBit, pendingBytes, inputBuffer, observe, rest,
                   nUnsol>>

\* (buffer != NULL, size) of the socketReceive calls made.
ReceiveArgs == {<<FALSE, MaxCapacity>>} \cup {<<TRUE, n>> : n \in 0 .. MaxCapacity}

ApiCall ==
    \/ \E a \in CreateArgs : socketCreate(a[1], a[2])
    \/ \E s \in Sockets : socketConnect(s)
    \/ \E s \in Sockets, async \in BOOLEAN : socketClose(s, async)
    \/ \E s \in Sockets, a \in ReceiveArgs : socketReceive(s, a[1], a[2])
    \/ \E a \in ExecArgs : execCommand(a[1], a[2], a[3])
    \/ getCCID

Next ==
    \/ ApiCall
    \/ ModemReply
    \/ ModemUnsolicited
    \/ Deadline
    \/ Resume

Spec == Init /\ [][Next]_vars


(***************************************************************************)
(* Properties of the socket table.                                         *)
(***************************************************************************)
\* A socketReceive call that returned after it took bytes off the counter.
ReceiveTook ==
    pc = "done" /\ call.op = "socketReceive" /\ call.avail >= 0

\* C1: socketReceive never decrements pendingBytes(s) by more than the value
\* the counter held: the length it takes off is at most what was pending, so
\* the unsigned counter does not wrap around.
C1_NoWrap == ReceiveTook => call.ret <= call.avail

\* C2: when socketClose(s, async) has returned, closed(s) is true and
\* pendingBytes(s) is 0, for every outcome and every sequence of lines read
\* while it waited.
C2_CloseResets ==
    pc = "done" /\ call.op = "socketClose"
        => closedBit[call.sock] /\ pendingBytes[call.sock] = 0

\* closed(s) turns false only in the return of a socketConnect(s) that got OK
\* and during which no socket-closed notification for s was absorbed.
C3_Opens ==
    \A s \in Sockets :
        closedBit[s] /\ ~closedBit'[s]
            => /\ pc' = "done"
               /\ call'.op = "socketConnect"
               /\ call'.sock = s
               /\ call'.resp = GSMResponseOK
               /\ ~call'.closeUrc

\* A step in which the session s is closed, is created anew, or is the
\* session of the outstanding command and has its socket-closed notification
\* absorbed.
C3_CloseEvent(s) ==
    \/ pc = "idle" /\ call'.op = "socketClose" /\ call'.sock = s
    \/ pc' = "done" /\ call'.op = "socketCreate" /\ call'.ret = s
    \/ call.sock = s /\ ~call.closeUrc /\ call'.closeUrc

\* C3: closed(s) is false only if the last socketConnect(s) succeeded and no
\* socketClose(s), no socketCreate returning s and no socket-closed
\* notification for s came since that socketConnect(s) began: closed(s)
\* turns false only in such a return, and every such event leaves it true.
C3_OpenOnlyConnected ==
    [][C3_Opens /\ \A s \in Sockets : C3_CloseEvent(s) => closedBit'[s]]_vars

\* C4: socketCreate returns the failure sentinel or a session id in
\* [0, SOCKET_COUNT), and writes no entry for an id outside that range.
C4_CreateInRange ==
    pc = "done" /\ call.op = "socketCreate"
        => /\ call.ret = SOCKET_FAIL \/ InRange(call.ret)
           /\ call.oobStores = 0

\* C6: socketReceive returns and decodes into the caller's buffer at most
\* min(capacity, maxSingleReadSize, pendingBytes(s)) bytes, for every length
\* the modem reports.
C6_ReceiveWithinRequest ==
    pc = "done" /\ call.op = "socketReceive" /\ wire # <<>>
        => call.ret <= call.reqSize /\ call.stored <= call.reqSize

\* C7: a socketReceive(s) call leaves pendingBytes(s) at what it held when the
\* call began, plus the byte counts of the data-arrival notifications for s
\* absorbed during the call, minus the number of bytes the call returned.
C7_ReceiveAccounting ==
    pc = "done" /\ call.op = "socketReceive"
        => pendingBytes[call.sock] = call.pre + call.absorbed - call.ret


(***************************************************************************)
(* socketCreate and socketConnect alone.                                   *)
(***************************************************************************)
NextCreate ==
    \/ \E a \in CreateArgs : socketCreate(a[1], a[2])
    \/ \E s \in Sockets : socketConnect(s)
    \/ ModemReply
    \/ ModemSends(Arriving(Sockets) \cup SessionCloseUrcs)
    \/ Deadline
    \/ Resume

SpecCreate == Init /\ [][NextCreate]_vars

\* The modem answered the create command with '+USOCR: n' and OK, and both
\* lines arrived before the deadline.
CreateAnswered(n) ==
    /\ pc = "done"
    /\ call.op = "socketCreate"
    /\ call.reply = <<USOCR(n), "OK">>
    /\ call.resp # GSMResponseTimeout

C5_OnReturn ==
    \A n \in Sockets :
        CreateAnswered(n)
            => call.ret = n /\ closedBit[n] /\ pendingBytes[n] = 0

C5_Opens ==
    \A s \in Sockets :
        closedBit[s] /\ ~closedBit'[s]
            => /\ pc' = "done"
               /\ call'.op = "socketConnect"
               /\ call'.sock = s
               /\ call'.resp = GSMResponseOK

\* C5: when the modem answers the create command with '+USOCR: n' (n a valid
\* session id) and OK, socketCreate returns n with closed(n) true and
\* pendingBytes(n) 0; and closed(s) turns false only in the return of a
\* socketConnect(s) that got OK.
C5_CreateYieldsClosed == []C5_OnReturn /\ [][C5_Opens]_vars

\* socketCreate returned the last session while another session is open and
\* holds data.
C5_Witness ==
    /\ CreateAnswered(SOCKET_COUNT - 1)
    /\ call.ret = SOCKET_COUNT - 1
    /\ ~closedBit[0]
    /\ pendingBytes[0] > 0

(***************************************************************************)
(* socketReceive, with isAlive() as the command during which data arrives. *)
(***************************************************************************)
NextReceive ==
    \/ execCommand(STR_AT, FALSE, 0)
    \/ \E s \in Sockets, a \in ReceiveArgs : socketReceive(s, a[1], a[2])
    \/ ModemReply
    \/ ModemSends(Arriving(Sockets) \cup {UnknownPlusLine})
    \/ Deadline
    \/ Resume

SpecReceive == Init /\ [][NextReceive]_vars

\* socketReceive asked the modem and returned.
ReceiveAsked == pc = "done" /\ call.op = "socketReceive" /\ wire # <<>>

\* What socketReceive got is a non-Ok outcome, a payload (of which sscanf
\* assigns v) that is not of the '+USORF' shape, or one of a session id out of
\* range.
ReceiveFailure(v) ==
    \/ call.resp # GSMResponseOK
    \/ Len(v) # 3
    \/ ~InRange(v[1])

ReceiveFailureKeeps(v) ==
    ReceiveAsked /\ ReceiveFailure(v)
        => /\ call.ret = 0
           /\ pendingBytes[call.sock] = call.pre + call.absorbed

\* C8: a socketReceive(s) that gets a non-Ok outcome, a reply not of the
\* '+USORF' shape or a reply of a session id out of range returns 0 and leaves
\* pendingBytes(s) at its value before the call plus the byte counts of the
\* data-arrival notifications absorbed during the call.
C8_FailureKeepsCounter == ReceiveFailureKeeps(sscanf(outBuffer, FmtUSORF))

\* The reply named a session out of range, after a data-arrival notification
\* for s was absorbed during the call.
C8_Witness ==
    /\ ReceiveAsked
    /\ call.resp = GSMResponseOK
    /\ call.reply = <<USORF(SOCKET_COUNT, 1, HexData(1)), "OK">>
    /\ call.absorbed > 0
    /\ call.ret = 0

C9_Step ==
    \A s \in Sockets :
        pc = "idle" /\ call'.op = "socketReceive" /\ call'.sock = s
            /\ pendingBytes[s] = 0
            => /\ pc' = "done"
               /\ call'.ret = 0
               /\ call'.stored = 0
               /\ wire' = <<>>
               /\ UNCHANGED <<closedBit, pendingBytes, outBuffer,
                              inputBuffer, rest, nUnsol>>

\* C9: socketReceive(s) called while pendingBytes(s) is 0 returns 0 at once:
\* it writes no command, reads no line, and leaves the socket table and the
\* caller's buffer as they were.
C9_ShortCircuit == [][C9_Step]_vars

\* socketReceive returned without a command, while another session holds data.
C9_Witness ==
    /\ pc = "done"
    /\ call.op = "socketReceive"
    /\ call.ret = 0
    /\ wire = <<>>
    /\ pendingBytes[call.sock] = 0
    /\ \E s \in Sockets : pendingBytes[s] > 0

(***************************************************************************)
(* The response matcher, line by line.                                     *)
(***************************************************************************)
\* One command, outstanding while some sessions are open; the state keeps
\* the line each iteration framed.
InitLines ==
    /\ closedBit \in [Sockets -> BOOLEAN]
    /\ pendingBytes = [s \in Sockets |-> 0]
    /\ pc = "idle"
    /\ call = NoCall
    /\ outBuffer = ""
    /\ inputBuffer = ""
    /\ observe = TRUE
    /\ rest = <<>>
    /\ nUnsol = 0
    /\ wire = <<>>

NextLines ==
    \/ \E a \in ExecArgs : execCommand(a[1], a[2], a[3])
    \/ getCCID
    \/ \E s \in Sockets : socketConnect(s)
    \/ ModemReply
    \/ ModemUnsolicited
    \/ Deadline

SpecLines == InitLines /\ [][NextLines]_vars

\* The step is an iteration of readResponse on an unsolicited line, after
\* which the command is still outstanding.
UnsolicitedStep == pc = "wait" /\ pc' = "wait" /\ nUnsol' = nUnsol + 1

\* The step leaves the payload, the reply still to come and the call as they
\* were.
Transparent ==
    /\ outBuffer' = outBuffer
    /\ rest' = rest
    /\ call'.op = call.op
    /\ call'.resp = call.resp

C10_Data ==
    \A id \in UrcIds, n \in 1 .. MaxUrcBytes :
        UnsolicitedStep /\ inputBuffer' = UUSORF(id, n)
            => /\ Transparent
               /\ closedBit' = closedBit
               /\ pendingBytes' = IF InRange(id)
                                  THEN [pendingBytes EXCEPT ![id] = @ + n]
                                  ELSE pendingBytes

C10_Closed ==
    \A id \in UrcIds :
        UnsolicitedStep /\ inputBuffer' = UUSOCL(id)
            => /\ Transparent
               /\ pendingBytes' = pendingBytes
               /\ closedBit' = IF InRange(id)
                               THEN [closedBit EXCEPT ![id] = TRUE]
                               ELSE closedBit

C10_Logged ==
    UnsolicitedStep /\ inputBuffer' \in LoggedUrcs
        => Transparent /\ closedBit' = closedBit /\ pendingBytes' = pendingBytes

\* C10: a recognized notification line read while any command is outstanding
\* is absorbed: the socket table changes as the notification says, and the
\* payload, the reply still to come and the outcome of the command are as
\* they were.
C10_Absorbs == [][C10_Data /\ C10_Closed /\ C10_Logged]_vars

\* A data-arrival notification was absorbed after a payload line of a command
\* that has an output buffer and an expected prefix.
C10_Witness ==
    /\ pc = "wait"
    /\ call.op = "getCCID"
    /\ outBuffer # ""
    /\ inputBuffer = UUSORF(1, 1)
    /\ pendingBytes[1] > 0


(***************************************************************************)
(* The payload readResponse returns.                                       *)
(***************************************************************************)
\* The lines of a reply before its terminal line.
PayloadLines(reply) == SubSeq(reply, 1, Len(reply) - 1)

\* A line without the prefix it starts with.
Stripped(line, prefix) == SubSeq(line, Len(prefix) + 1, Len(line))

\* The lines without the prefix, in order, joined by one line-break.
RECURSIVE JoinStripped(_, _)
JoinStripped(lines, prefix) ==
    IF lines = <<>> THEN ""
    ELSE IF Len(lines) = 1 THEN Stripped(lines[1], prefix)
    ELSE Stripped(lines[1], prefix) \o LF \o JoinStripped(Tail(lines), prefix)

\* A command with an expected prefix and an output buffer got Ok after one or
\* more lines that all start with the prefix.
PrefixedAnswer ==
    /\ pc = "done"
    /\ call.op = "getCCID"
    /\ call.resp = GSMResponseOK
    /\ Len(call.reply) >= 2
    /\ \A i \in 1 .. (Len(call.reply) - 1) :
          startsWith(call.prefix, call.reply[i])

PayloadIs(joined) ==
    PrefixedAnswer /\ Len(joined) <= call.outMax - 1 => outBuffer = joined

\* C11: when a command with an expected prefix and an output buffer reads an
\* echo, notifications, one or more lines that start with the prefix and then
\* the success line, the payload (if it fits the buffer) is exactly those
\* lines without the prefix, in arrival order, joined by one line-break.
C11_PrefixPayloadJoined ==
    PayloadIs(JoinStripped(PayloadLines(call.reply), call.prefix))


(***************************************************************************)
(* The outcome readResponse returns.                                       *)
(***************************************************************************)
\* The call returned on the one line `line` the modem answered with.
AnsweredOnly(line) ==
    pc = "done" /\ call.reply = <<line>> /\ call.resp # GSMResponseTimeout

\* C12: the outcome distinguishes the error kinds: the terminal line 'ERROR'
\* yields the generic error outcome, and the terminal line '+CME ERROR: 10'
\* yields an error outcome that is not the generic one (it is of the
\* device-specific kind and carries the code 10).
C12_ErrorKinds ==
    /\ AnsweredOnly("ERROR") => call.resp = GSMResponseError
    /\ AnsweredOnly("+CME ERROR: 10")
          => call.resp \notin {GSMResponseOK, GSMResponseError}


(***************************************************************************)
(* readResponse against its deadline: one command, during which the modem  *)
(* may send lines without end and readLn may time out without a line.      *)
(***************************************************************************)
\* readLn framed nothing within its 250 ms.  With len = 0 it reads
\* buffer[-1], a byte outside _inputBuffer: whether it finds a CR there
\* (and returns SIZE_MAX, -1 as the int count) or not (and returns 0) is not
\* determined.  readResponse skips the iteration on either count.
Silence ==
    /\ pc = "wait"
    /\ \E count \in {0, -1} : count <= 0
    /\ inputBuffer' = ""
    /\ UNCHANGED <<closedBit, pendingBytes, pc, call, outBuffer, observe,
                   rest, nUnsol, wire>>

\* The modem goes on sending echoes and logged notifications.
ModemChatter ==
    /\ pc = "wait"
    /\ \E line \in LoggedUrcs \cup {Echo} : ReadLine(line, rest)
    /\ UNCHANGED <<observe, nUnsol, wire>>

InitClock == InitLines /\ closedBit = [s \in Sockets |-> TRUE]

NextClock ==
    \/ \E a \in ExecArgs : execCommand(a[1], a[2], a[3])
    \/ getCCID
    \/ ModemReply
    \/ ModemUnsolicited
    \/ ModemChatter
    \/ Silence
    \/ Deadline

\* The clock advances: the loop of readResponse tests its deadline in every
\* iteration, and every readLn returns within bounded time.
SpecClock == InitClock /\ [][NextClock]_vars /\ WF_vars(Deadline)

\* A call that went through readResponse has one of the three outcomes.
C13_OneOutcome ==
    pc = "done" /\ wire # <<>>
        => call.resp \in {GSMResponseOK, GSMResponseError, GSMResponseTimeout}

\* readResponse returns Ok or Error only on framing the success line or an
\* error line: with none framed, its outcome is Timeout.
C13_Return ==
    pc = "wait" /\ pc' = "done" /\ call'.resp # GSMResponseTimeout
        => rest # <<>> /\ Head(rest) \in Terminals

\* C13: every readResponse call ends with exactly one outcome of Ok, Error,
\* Timeout once the clock passes its deadline, and the outcome is Timeout
\* when no success or error line was framed (the stream is empty or holds
\* only echoes, notifications and payload lines).
C13_EndsWithOneOutcome ==
    /\ []C13_OneOutcome
    /\ [][C13_Return]_vars
    /\ (pc = "wait" ~> pc = "done")

(***************************************************************************)
(* The hexadecimal round trip of a payload.                                *)
(***************************************************************************)
\* Longest payload converted.
MaxHexLen == 2
Bytes == 0 .. 255
\* Bytes with two digit nibbles, two letter nibbles, one of each.
SampleBytes == {0, 154, 255}

\* The payloads converted: every byte value at every position, among sample
\* bytes.
HexInputs ==
    {<<>>} \cup
    UNION {{[t EXCEPT ![k] = b] :
              t \in [1 .. n -> SampleBytes], k \in 1 .. n, b \in Bytes} :
           n \in 1 .. MaxHexLen}

\* The payload is printed as socketSend prints it.
HexPrint ==
    /\ pc = "idle"
    /\ \E b \in HexInputs :
          /\ call' = [NoCall EXCEPT !.op = "hex", !.buffer = b]
          /\ wire' = <<HexPrinted(b, 1)>>
    /\ pc' = "wait"
    /\ UNCHANGED <<closedBit, pendingBytes, outBuffer, inputBuffer, observe,
                   rest, nUnsol>>

\* The text comes back and is read as socketReceive reads it.
HexRead ==
    /\ pc = "wait"
    /\ call.op = "hex"
    /\ outBuffer' = wire[1]
    /\ call' = [call EXCEPT
                  !.decoded = HexStored(wire[1], Len(call.buffer))]
    /\ pc' = "done"
    /\ UNCHANGED <<closedBit, pendingBytes, inputBuffer, observe, rest,
                   nUnsol, wire>>

NextHex == HexPrint \/ HexRead

SpecHex == Init /\ [][NextHex]_vars

\* C14: a payload printed in hexadecimal as socketSend prints it and read
\* back as socketReceive reads it is the payload itself, for every byte
\* value.
C14_HexRoundTrip ==
    pc = "done" /\ call.op = "hex" => call.decoded = call.buffer

\* A payload with a byte of two letter nibbles came back.
C14_Witness ==
    /\ pc = "done"
    /\ call.op = "hex"
    /\ Len(call.buffer) = MaxHexLen
    /\ call.buffer[1] = 175
    /\ SubSeq(outBuffer, 1, 2) = "AF"
    /\ call.decoded = call.buffer

(***************************************************************************)
(* connect(): the APN-verify loop and what follows it.                     *)
(***************************************************************************)
\* The lines the modem sends unasked while connect() waits: the echo, the
\* logged notifications and the socket-closed notifications.
ConnectUnsolicited == {Echo} \cup LoggedUrcs \cup SessionCloseUrcs

NextConnect ==
    \/ connect
    \/ connectNext
    \/ ModemReply
    \/ ModemSends(ConnectUnsolicited)
    \/ Deadline

SpecConnect == Init /\ [][NextConnect]_vars

\* connect() has returned, or has gone on past waitForSignalQuality.
ConnectLeft == pc = "done" /\ call.op = "connect"

\* C15: when the APN-verify loop of connect() ends with the negative result
\* of checkApn, connect() returns false after its 20 polls and has written
\* nothing but the 20 context queries: no signal-quality query, no attach
\* polling, no reboot, no SIM check.
C15_GivesUpAfterPolls ==
    ConnectLeft /\ call.j < 0 =>
        /\ call.ret = FALSE
        /\ call.phase = "verify"
        /\ wire = [k \in 1 .. ApnPolls |-> "AT+CGDCONT?"]

\* The last of 20 polls found another APN and connect() returned.
C15_Witness ==
    /\ ConnectLeft
    /\ call.j < 0
    /\ call.i = ApnPolls
    /\ Len(wire) = ApnPolls
    /\ call.reply = <<CGDCONT("other", "10.0.0.1"), "OK">>
    /\ call.ret = FALSE

(***************************************************************************)
(* Notifications that name a session the table does not have.              *)
(***************************************************************************)
\* Session ids past either end of the table.
OutOfRangeIds == {-1, SOCKET_COUNT, SOCKET_COUNT + 1}

\* The socket notifications the modem may send, for ids in and out of range.
SocketUrcs ==
    Arriving(Sockets \cup OutOfRangeIds)
        \cup {UUSOCL(id) : id \in Sockets \cup OutOfRangeIds}

NextUrc ==
    \/ \E a \in ExecArgs : execCommand(a[1], a[2], a[3])
    \/ getCCID
    \/ ModemReply
    \/ ModemSends(SocketUrcs)
    \/ Deadline

SpecUrc == InitLines /\ [][NextUrc]_vars

\* The step is an iteration of readResponse on the line `line`.
Framed(line) == pc = "wait" /\ inputBuffer' = line

\* The line was consumed: readResponse goes on, with the payload it had.
Consumed == pc' = "wait" /\ outBuffer' = outBuffer /\ rest' = rest

\* The entries of the sessions other than id are as they were.
OthersKept(id) ==
    \A t \in Sockets \ {id} :
        closedBit'[t] = closedBit[t] /\ pendingBytes'[t] = pendingBytes[t]

C16_Step ==
    \A id \in Sockets \cup OutOfRangeIds :
        \A line \in {UUSOCL(id)} \cup {UUSORF(id, n) : n \in 1 .. MaxUrcBytes} :
            Framed(line) => Consumed /\ OthersKept(id)

\* C16: a data-arrival or socket-closed notification whose session id is
\* outside the table is consumed as handled and changes no entry of the
\* table; one whose id is in the table changes no entry but that session's.
C16_OnlyNamedSession == [][C16_Step]_vars

\* A socket-closed notification for session -1 was consumed while a session
\* was open.
C16_Witness ==
    /\ pc = "wait"
    /\ inputBuffer = UUSOCL(-1)
    /\ \E s \in Sockets : ~closedBit[s]
    /\ call.outGiven

(***************************************************************************)
(* Lines with the notification sentinel that are no notification.          *)
(***************************************************************************)
\* Lines that begin with '+' and have none of the four shapes: another
\* name, or a shape with a parameter missing.
UnhandledPlusLines ==
    {UnknownPlusLine, "+UUSORF: 1", "+UUSOCL: x", "+UFOTAS: 1,", "+CSCON:"}

NextPlus ==
    \/ \E a \in ExecArgs : execCommand(a[1], a[2], a[3])
    \/ getCCID
    \/ ModemReply
    \/ ModemSends(UnhandledPlusLines)
    \/ Deadline

SpecPlus == InitLines /\ [][NextPlus]_vars

\* The payload `out` with the line `line` appended after a line break, cut
\* to what a buffer of outMaxSize characters holds.
Appended(out, line, outMaxSize) ==
    LET all == IF out = "" THEN line ELSE out \o LF \o line
    IN  SubSeq(all, 1, Min(Len(all), outMaxSize - 1))

C17_Step ==
    \A line \in UnhandledPlusLines :
        Framed(line) =>
            /\ ~checkURC(line, closedBit, pendingBytes).handled
            /\ UNCHANGED <<closedBit, pendingBytes, rest>>
            /\ pc' = "wait"
            /\ outBuffer' =
                  IF call.outGiven /\ call.outMax > 0 /\ call.prefix = ""
                  THEN Appended(outBuffer, line, call.outMax)
                  ELSE outBuffer

\* C17: a line that begins with '+' and has none of the four notification
\* shapes is reported not handled and changes nothing of the socket table;
\* readResponse then appends it to the payload (after a line break, within
\* the capacity) when it has an output buffer and no prefix to expect, and
\* skips it otherwise.
C17_UnknownPlusLine == [][C17_Step]_vars

\* A line of an unknown notification was appended to the payload of a
\* command, after the line of its reply.
C17_Witness ==
    /\ pc = "wait"
    /\ inputBuffer = UnknownPlusLine
    /\ call.op = "execCommand"
    /\ outBuffer = "L0.0.00.00" \o LF \o UnknownPlusLine

(***************************************************************************)
(* socketSend.                                                             *)
(***************************************************************************)
\* The notifications the modem may send while socketSend waits: data for
\* the session that sends, and the close of any session.
SendUrcs == Arriving({call.sock}) \cup SessionCloseUrcs

NextSend ==
    \/ \E s \in Sockets, b \in SendPayloads : socketSend(s, b)
    \/ socketSendCommand
    \/ ModemReply
    \/ ModemSends(SendUrcs)
    \/ Deadline

\* No session or one session is open when socketSend is called.
InitSend ==
    /\ closedBit \in {[s \in Sockets |-> s # o] : o \in Sockets \cup {-1}}
    /\ pendingBytes = [s \in Sockets |-> 0]
    /\ pc = "idle"
    /\ call = NoCall
    /\ outBuffer = ""
    /\ inputBuffer = ""
    /\ observe = FALSE
    /\ rest = <<>>
    /\ nUnsol = 0
    /\ wire = <<>>

SpecSend == InitSend /\ [][NextSend]_vars

\* socketSend has returned.
SendReturned == pc = "done" /\ call.op = "socketSend"

\* C18: a socketSend whose payload is longer than the maximum returns 0, has
\* written nothing to the transport (neither the configuration command nor
\* the send command) and leaves the socket table as it was.
C18_OversizeSendsNothing ==
    SendReturned /\ call.size > SODAQ_MAX_SEND_MESSAGE_SIZE =>
        /\ call.ret = 0
        /\ wire = <<>>
        /\ <<closedBit, pendingBytes>> = call.table

\* An oversize socketSend returned while a session was open.
C18_Witness ==
    /\ SendReturned
    /\ Len(call.buffer) = SODAQ_MAX_SEND_MESSAGE_SIZE + 1
    /\ call.ret = 0
    /\ ~closedBit[call.sock]

\* socketSend returned the number of bytes the modem reported as sent.
SendSucceeded == SendReturned /\ call.ret # 0

\* The step is an iteration of readResponse on a socket notification (the
\* lines the modem sends unasked here).
AbsorbsUrc == UnsolicitedStep

\* C19 as stated: on the return of a successful socketSend the
\* socket table is what it was at the call.
C19_SendLeavesTable ==
    SendSucceeded => <<closedBit, pendingBytes>> = call.table

\* C19: socketSend itself stores nothing in the socket table: from its call
\* to its return the table changes only in the iterations of readResponse
\* that absorb a socket notification.
C19_SendStoresNothing ==
    [][call'.op = "socketSend" /\ ~AbsorbsUrc
          => UNCHANGED <<closedBit, pendingBytes>>]_vars

\* A successful socketSend returned after both its commands, and data had
\* arrived for its session meanwhile.
C19_Witness ==
    /\ SendSucceeded
    /\ Len(wire) = 2
    /\ call.size > 0
    /\ call.table[2][call.sock] = 0
    /\ pendingBytes[call.sock] > 0

(***************************************************************************)
(* socketCloseAll.                                                         *)
(***************************************************************************)
NextCloseAll ==
    \/ socketCloseAll
    \/ socketCloseAllNext
    \/ ModemReply
    \/ ModemSends(Arriving(Sockets) \cup SessionCloseUrcs)
    \/ Deadline

\* Some sessions are open and hold bytes to read when socketCloseAll is
\* called.
InitCloseAll ==
    /\ closedBit \in [Sockets -> BOOLEAN]
    /\ pendingBytes \in [Sockets -> 0 .. (SizeMod - 1)]
    /\ pc = "idle"
    /\ call = NoCall
    /\ outBuffer = ""
    /\ inputBuffer = ""
    /\ observe = FALSE
    /\ rest = <<>>
    /\ nUnsol = 0
    /\ wire = <<>>

SpecCloseAll == InitCloseAll /\ [][NextCloseAll]_vars

\* socketCloseAll has returned.
CloseAllReturned == pc = "done" /\ call.op = "socketCloseAll"

\* One close command for each session, in ascending order of the ids.
C20_Commands ==
    wire = [k \in 1 .. SOCKET_COUNT |-> "AT+USOCL=" \o ToString(k - 1)]

\* Every session is closed and has no bytes to read.
C20_AllReset == \A s \in Sockets : closedBit[s] /\ pendingBytes[s] = 0

\* C20: on the return of socketCloseAll one close command was written for
\* each session id, in ascending order, the result counts the closes the
\* modem acknowledged (0 .. SOCKET_COUNT), and every session is closed with
\* no bytes to read.
C20_CloseAllResets ==
    CloseAllReturned =>
        /\ C20_Commands
        /\ call.ret \in 0 .. SOCKET_COUNT
        /\ C20_AllReset

(***************************************************************************)
(* The lines that end a command.                                           *)
(***************************************************************************)
\* The characters of s from position p on are decimal digits, one at least.
AllDigits(s, p) ==
    /\ p <= Len(s)
    /\ \A k \in p .. Len(s) : CharAt(s, k) \in Digits

\* A vendor-error marker followed by a numeric code.
VendorError(marker, line) ==
    /\ startsWith(marker, line)
    /\ AllDigits(line, SkipWs(line, Len(marker) + 1))

\* The success marker, the generic error marker, or a vendor error with its
\* code.
ExactTerminal(line) ==
    \/ line = STR_RESPONSE_OK
    \/ line = STR_RESPONSE_ERROR
    \/ VendorError(STR_RESPONSE_CME_ERROR, line)
    \/ VendorError(STR_RESPONSE_CMS_ERROR, line)

\* The step ends readResponse on a line of the modem's reply.
EndsOnLine ==
    /\ pc = "wait"
    /\ pc' # "wait"
    /\ call'.resp \in {GSMResponseOK, GSMResponseError}

\* C29: readResponse ends a command only on a line that is exactly the
\* success marker, exactly the generic error marker, or a vendor-error marker
\* followed by a numeric code; a line that merely begins with the letters of
\* a marker does not end the command.
C29_ExactTerminals ==
    [][EndsOnLine => rest # <<>> /\ ExactTerminal(Head(rest))]_vars

(***************************************************************************)
(* The payload and the capacity of the buffer.                             *)
(***************************************************************************)
\* Capacities of the buffers execCommand is called with.
Capacities == {0, 1, 2, 12, CCIDBufferSize}

NextCapacity ==
    \/ \E size \in Capacities : execCommand("AT+CGMR", TRUE, size)
    \/ ModemReply
    \/ ModemSends({UnknownPlusLine, Echo})
    \/ Deadline

SpecCapacity == InitClock /\ [][NextCapacity]_vars

\* C27: the payload readResponse accumulates stays within the capacity the
\* caller gave: nothing is stored at or past index capacity, at most
\* capacity - 1 payload characters are kept, and the payload is terminated
\* by a 0 at an index below the capacity.
C27_WithinCapacity ==
    call.outGiven =>
        /\ call.pastCapacity = 0
        /\ call.outMax > 0 => Len(outBuffer) <= call.outMax - 1 /\ call.nul

(***************************************************************************)
(* socketWaitForReceive.                                                   *)
(***************************************************************************)
\* A data-arrival notification for the session reaches the transport
\* during the delay of socketWaitForReceive: nothing reads it yet.
socketWaitArrival ==
    /\ pc = "next"
    /\ call.op = "socketWaitForReceive"
    /\ Len(call.stream) < MaxUnsolicited
    /\ \E line \in Arriving({call.sock}) :
          call' = [call EXCEPT !.stream = Append(@, line)]
    /\ UNCHANGED <<closedBit, pendingBytes, pc, outBuffer, inputBuffer,
                   observe, rest, nUnsol, wire>>

NextWait ==
    \/ \E s \in Sockets : socketWaitForReceive(s)
    \/ socketWaitArrival
    \/ socketWaitNext
    \/ ModemReply
    \/ ModemSends(Arriving({call.sock}) \cup {Echo})
    \/ Deadline

SpecWait == InitCloseAll /\ [][NextWait]_vars

\* socketWaitForReceive has returned.
WaitReturned == pc = "done" /\ call.op = "socketWaitForReceive"

\* A data-arrival notification for the session of the call, with a positive
\* count, reached the transport before socketWaitForReceive found its time
\* up: readResponse absorbed it, or it waits in the stream.
ArrivedInTime == call.absorbed > 0 \/ call.stream # <<>>

\* C21: socketWaitForReceive returns true without a command when bytes are
\* pending at entry; else it writes the liveness command only, and returns
\* whether bytes are pending at its return; when a data-arrival notification
\* for the session reached the transport before the timeout it returns
\* true.
C21_WaitForReceive ==
    WaitReturned =>
        /\ call.pre > 0 => call.ret = TRUE /\ wire = <<>>
        /\ \A k \in 1 .. Len(wire) : wire[k] = STR_AT
        /\ call.ret = (pendingBytes[call.sock] > 0)
        /\ ArrivedInTime => call.ret = TRUE

(***************************************************************************)
(* connect() from its start to its end.                                    *)
(***************************************************************************)
NextWhole ==
    \/ \E a \in ConnectCalls : connectCall(a[1], a[2])
    \/ connectGoesOn(connectCommand(call))
    \/ ModemReply
    \/ ModemSends({Echo, "+CSCON: 1"})
    \/ Deadline

SpecWhole == Init /\ [][NextWhole]_vars

\* connect(), followed from its start, is at work or has returned.
InConnect == call.op = "connect" /\ call.whole

\* The place of a step of connect() in the order of lines 171-248; the
\* reboot cycle stands between the attach and the SIM check.
Rank(phase) ==
    CASE phase \in {"alive", "purge"} -> 1
      [] phase = "ATE0" -> 2
      [] phase = "CMEE" -> 3
      [] phase = "CIPCA" -> 4
      [] phase \in {"CFUN?", "CFUN=1"} -> 5
      [] phase = "UBANDSEL" -> 6
      [] phase \in {"CFGDFTPDN?", "CFGDFTPDN="} -> 7
      [] phase = "COPS" -> 8
      [] phase = "CGDCONT=" -> 9
      [] phase = "CGACT" -> 10
      [] phase = "verify" -> 11
      [] phase = "csq" -> 12
      [] phase = "attach" -> 13
      [] phase \in {"CFUN=16", "CPIN", "reboot ATE0", "drain"} -> 14
      [] phase = "sim" -> 15

\* The steps connect() may leave out: the band selection without a band, the
\* operator selection without an operator, the attach with an address
\* bound, the reboot cycle.
Optional(c) ==
    (IF c.band = "" THEN {6} ELSE {}) \cup (IF c.opr = "" THEN {8} ELSE {})
        \cup (IF c.j > 0 THEN {13} ELSE {}) \cup {14}

\* The steps whose command must be answered with OK.
MustSucceed ==
    {"ATE0", "CMEE", "CIPCA", "CFUN?", "CFUN=1", "UBANDSEL", "CFGDFTPDN?",
     "CFGDFTPDN=", "COPS", "CGDCONT=", "CGACT"}

\* connect() passes from one step to the next one in the order, leaving out
\* optional steps only (the reboot cycle goes back to the signal
\* acquisition).
C22_InOrder ==
    call.op = "connect" /\ call'.phase # call.phase /\ call.phase # "drain" =>
        /\ Rank(call'.phase) >= Rank(call.phase)
        /\ \A r \in (Rank(call.phase) + 1) .. (Rank(call'.phase) - 1) :
              r \in Optional(call')

\* A step that fails ends connect() with false: no command follows.
C22_FailureEnds ==
    /\ pc = "wait" /\ pc' # "wait" /\ call.phase \in MustSucceed
          /\ call'.resp # GSMResponseOK
       => pc' = "done" /\ call'.ret = FALSE
    /\ pc = "done" => pc' = "done" /\ wire' = wire
    /\ pc' = "done" /\ call'.ret = FALSE => wire' = wire

\* C22: connect() performs its steps in the fixed order power-on and
\* liveness, echo off, verbose errors, PDP context configuration, radio
\* check, optional band selection, default APN, operator selection, APN
\* binding, PDP activation, APN-verify loop, signal acquisition, attach, SIM
\* check; when a step fails it returns false and writes no command of a
\* later step; it returns true only from the SIM check, every step before
\* it having succeeded.
C22_FixedOrder ==
    [][InConnect' =>
          /\ C22_InOrder
          /\ C22_FailureEnds
          /\ pc' = "done" /\ call'.ret = TRUE =>
                call'.phase = "sim" /\ call'.resp = GSMResponseOK]_vars

\* connect() returned true with a band and an operator given and without a
\* reboot.
C22_Witness ==
    /\ InConnect
    /\ pc = "done"
    /\ call.ret = TRUE
    /\ call.band # ""
    /\ call.opr # ""
    /\ call.reboots = 0
    /\ wire = <<"AT+CPIN?">>

\* connect() has returned after its signal acquisition began.
ConnectReturned == InConnect /\ pc = "done" /\ Rank(call.phase) >= 12

\* C23: connect() makes at most one reboot; when it returns, it has made
\* one exactly if more than 40 s have passed since its signal acquisition
\* began, and none if not.
C23_RebootWhenLate ==
    InConnect =>
        /\ call.reboots <= 1
        /\ ConnectReturned => (call.late <=> call.reboots = 1)

\* C24: in the polling loops of the signal acquisition and of the attach
\* the delay after the first poll is 500 ms, the delay after poll i is
\* 1000 ms more than the one before it up to the ceiling, and no delay is
\* more than 5000 ms.
C24_BackoffCeiling ==
    InConnect /\ call.phase \in {"csq", "attach"} /\ call.i > 0 =>
        /\ call.i = 1 => call.slept = 500
        /\ 500 + 1000 * (call.i - 1) <= 5000 =>
              call.slept = 500 + 1000 * (call.i - 1)
        /\ call.slept <= 5000

\* connect() writes the command of its step `phase` in this step.
Queries(phase) ==
    pc = "next" /\ pc' = "wait" /\ InConnect' /\ call'.phase = phase

\* A checkApn of the APN-verify loop has returned in this step: call'.j is
\* its classification.
Verified == InConnect /\ call.phase = "verify" /\ pc = "wait" /\ pc' # "wait"

\* The first signal acquisition has succeeded in this step.
SignalFound ==
    /\ InConnect
    /\ call.phase = "csq"
    /\ call.reboots = 0
    /\ pc' = "next"
    /\ call'.phase # "csq"

SimAnswered == InConnect /\ call.phase = "sim" /\ pc = "wait" /\ pc' # "wait"

ReportedReady == call'.resp = GSMResponseOK /\ outBuffer' = "+CPIN: READY"

\* C26: connect() returns true only when a SIM-status query of its last
\* step reported 'ready'; the SIM check makes at most 10 queries, returns
\* true at the first that reports 'ready', and returns false when the
\* tenth one too reports something else or fails.
C26_SimReady ==
    [][/\ InConnect' /\ pc' = "done" /\ call'.ret = TRUE =>
             SimAnswered /\ ReportedReady
       /\ Queries("sim") => call'.i < SimPolls
       /\ SimAnswered =>
             IF ReportedReady THEN pc' = "done" /\ call'.ret = TRUE
             ELSE IF call.i + 1 < SimPolls
             THEN pc' = "next" /\ call'.phase = "sim"
             ELSE pc' = "done" /\ call'.ret = FALSE]_vars

\* connect() returned true on a query that reported 'ready' after an
\* earlier query that did not.
C26_Witness ==
    /\ InConnect
    /\ pc = "done"
    /\ call.phase = "sim"
    /\ call.ret = TRUE
    /\ call.i > 0
    /\ call.sim = "SimReady"
    /\ outBuffer = "+CPIN: READY"

(***************************************************************************)
(* The watchdog in the polling loops.                                      *)
(***************************************************************************)
NextFeed ==
    \/ \E a \in ConnectCalls : connectCall(a[1], a[2])
    \/ connectGoesOn(connectCommand(call))
    \/ \E s \in Sockets : socketWaitForReceive(s)
    \/ socketWaitArrival
    \/ socketWaitNext
    \/ ModemReply
    \/ ModemSends({Echo, "+CSCON: 1"})
    \/ Deadline

SpecFeed == Init /\ [][NextFeed]_vars

\* C28: every iteration of the loop of readResponse calls the watchdog, and
\* so does every iteration of the loops that poll through it (the liveness
\* poll of on(), the APN-verify loop, the signal acquisition, the attach,
\* the SIM check, the waits of reboot, socketWaitForReceive): a step inside
\* readResponse is an iteration of its loop, and each iteration of the
\* other loops ends with the return of a readResponse.
C28_WatchdogFed ==
    [][/\ pc = "wait" => call'.fed >= 1
       /\ pc' = "next" /\ pc # "next" => pc = "wait"]_vars

\* The first wait of reboot has read once without the OK and goes round
\* again.
C28_Witness ==
    /\ InConnect
    /\ pc = "next"
    /\ call.phase = "CFUN=16"
    /\ call.i > 0
    /\ call.resp = GSMResponseTimeout
    /\ call.fed = 1

====
